---- MODULE Spec2Model ----
(***************************************************************************)
(* ReAct orchestration loop of SnapAgent (backend/app/agent): the          *)
(* generator ReActAgent.run_stream, the middleware chain that wraps its    *)
(* lifecycle hooks, the intent classifier and the tool executor.           *)
(*                                                                         *)
(* A query is a sequence of symbols: each symbol stands for one word       *)
(* (or one whitespace character, " "); the length of a query is its        *)
(* number of symbols.  Scores and confidences are in hundredths.           *)
(***************************************************************************)
EXTENDS Integers, Sequences, FiniteSets, TLC

----------------------------------------------------------------------------
(* Bounds of the model *)

\* largest value of settings.react_max_iterations that is explored
MaxIter == 3

\* max_length given to InputGuardMiddleware(max_length)
MaxQueryLen == 4

\* the most rows usage_logs holds
MaxLogs == 3

\* the last minute of the clock
MaxTime == 2

\* the most rows that are ever inserted into snap_vec_ebd
MaxRows == 3

\* the longest text given to the chunker
MaxTextLen == 5

\* the largest chunk_size of a chunker
MaxChunkSize == 3

\* the files of an agent in one call of process_agent_files
MaxFiles == 3

(* Program constants *)

\* settings.react_evaluation_threshold = 0.7
EvalThreshold == 70

\* confidence of a hybrid classification, 0.7
HybridConfidence == 70

\* the re-query bonus given to the tool family not used before
RequeryBonus == 2

----------------------------------------------------------------------------
(* Queries *)

WS == " "

RAG_KEYWORDS == {"document", "file"}

WEB_KEYWORDS == {"news", "latest"}

ACADEMIC_KEYWORDS == {"paper"}

SCRAPER_KEYWORDS == {"crawl"}

CODE_KEYWORDS == {"python"}

\* the text put in front of the query on a re-query
TEMPLATE == "Please provide a more detailed answer. Original question: "

Range(s) == {s[i] : i \in 1..Len(s)}

\* the queries a caller passes to run_stream
RawQueries ==
    { <<>>,
      <<WS, WS>>,
      <<"hello">>,
      <<"python">>,
      <<WS, "document", WS, WS, "hello">>,
      <<"news", WS>>,
      <<"file", WS, "latest">>,
      [i \in 1..(MaxQueryLen + 1) |-> "hello"] }

\* str.strip(): drop leading and trailing whitespace
RECURSIVE LStrip(_)
LStrip(s) ==
    IF s = <<>> THEN <<>>
    ELSE IF Head(s) = WS THEN LStrip(Tail(s)) ELSE s

RECURSIVE RStrip(_)
RStrip(s) ==
    IF s = <<>> THEN <<>>
    ELSE IF s[Len(s)] = WS THEN RStrip(SubSeq(s, 1, Len(s) - 1)) ELSE s

Strip(s) == RStrip(LStrip(s))

\* a query whose runs of whitespace are left as they are
CollapseNothing(s) == s

\* re.sub(r"\s+", " ", query): every run of whitespace becomes one space
RECURSIVE Collapse(_)
Collapse(s) ==
    IF Len(s) < 2 THEN s
    ELSE IF s[1] = WS /\ s[2] = WS THEN Collapse(Tail(s))
    ELSE <<s[1]>> \o Collapse(Tail(s))

----------------------------------------------------------------------------
(* Intent classifier *)

KeywordScore(kws, q) == Cardinality({kw \in kws : kw \in Range(q)})

Min(a, b) == IF a < b THEN a ELSE b

\* classify that decides between the tool families by the larger score and
\* answers hybrid only on a tie
ClassifyByScore(q, previous_results, pref) ==
    LET rag0 == KeywordScore(RAG_KEYWORDS, q)
        web0 == KeywordScore(WEB_KEYWORDS, q)
                  + KeywordScore(ACADEMIC_KEYWORDS, q)
                  + KeywordScore(SCRAPER_KEYWORDS, q)
        rag1 == rag0 + (IF pref \in {"qa", "summary"} THEN 2 ELSE 0)
        web1 == web0 + (IF pref \in {"research", "monitoring"} THEN 2 ELSE 0)
        previous_tools == {previous_results[i].tool_type :
                               i \in 1..Len(previous_results)}
        rag_score == rag1 + (IF previous_tools = {"web_search"}
                               THEN RequeryBonus ELSE 0)
        web_score == web1 + (IF previous_tools = {"rag"}
                               THEN RequeryBonus ELSE 0)
    IN  IF rag_score > web_score
          THEN [intent_type |-> "rag_search",
                confidence |-> Min(50 + rag_score * 10, 95)]
        ELSE IF web_score > rag_score
          THEN [intent_type |-> "web_search",
                confidence |-> Min(50 + web_score * 10, 95)]
        ELSE IF rag_score > 0
          THEN [intent_type |-> "hybrid", confidence |-> HybridConfidence]
        ELSE [intent_type |-> "general_chat", confidence |-> 80]

\* IntentClassifier.classify(query, previous_results, preferences);
\* previous_results is the list of tool results, pref the task_purpose
\* ("" when no preferences are passed, as run_stream does)
Classify(q, previous_results, pref) ==
    LET rag0 == KeywordScore(RAG_KEYWORDS, q)
        web0 == KeywordScore(WEB_KEYWORDS, q)
                  + KeywordScore(ACADEMIC_KEYWORDS, q)
                  + KeywordScore(SCRAPER_KEYWORDS, q)
        code_score == KeywordScore(CODE_KEYWORDS, q)
        rag1 == rag0 + (IF pref \in {"qa", "summary"} THEN 2 ELSE 0)
        web1 == web0 + (IF pref \in {"research", "monitoring"} THEN 2 ELSE 0)
        previous_tools == {previous_results[i].tool_type :
                               i \in 1..Len(previous_results)}
        onlyRag == "rag" \in previous_tools /\ "web_search" \notin previous_tools
        onlyWeb == ~onlyRag /\ "web_search" \in previous_tools
                            /\ "rag" \notin previous_tools
        rag_score == rag1 + (IF onlyWeb THEN RequeryBonus ELSE 0)
        web_score == web1 + (IF onlyRag THEN RequeryBonus ELSE 0)
    IN  IF rag_score > 0 /\ web_score > 0
          THEN [intent_type |-> "hybrid", confidence |-> HybridConfidence]
        ELSE IF rag_score > web_score
          THEN [intent_type |-> "rag_search",
                confidence |-> Min(50 + rag_score * 10, 95)]
        ELSE IF web_score > rag_score
          THEN [intent_type |-> "web_search",
                confidence |-> Min(50 + web_score * 10, 95)]
        ELSE IF code_score > 0
          THEN [intent_type |-> "general_chat", confidence |-> 70]
        ELSE [intent_type |-> "general_chat", confidence |-> 80]

----------------------------------------------------------------------------
(* Middleware chain *)

\* ReActAgent(db, agent, user, middlewares): the default chain followed by
\* one caller-supplied middleware whose hooks may pass, abort or raise
Chain == <<"InputGuard", "TokenLimit", "Logging", "Custom">>

Hooks == {"before_run", "before_tool", "after_tool", "before_llm", "after_llm"}

NewContext(q) == [query |-> q, aborted |-> FALSE, abort_reason |-> ""]

\* InputGuardMiddleware.before_run with max_length = MaxQueryLen
InputGuardBeforeRun(c) ==
    IF c.query = <<>> \/ Strip(c.query) = <<>>
      THEN [c EXCEPT !.aborted = TRUE, !.abort_reason = "empty query"]
    ELSE LET q == Collapse(Strip(c.query))
         IN  IF Len(q) > MaxQueryLen
               THEN [c EXCEPT !.query = q, !.aborted = TRUE,
                              !.abort_reason = "query too long"]
             ELSE [c EXCEPT !.query = q]

\* what the hook of one middleware may do, besides what the context decides
Allowed(mw, hook) ==
    IF mw = "Custom" THEN {"ok", "abort", "raise"}
    ELSE IF mw = "TokenLimit" /\ hook = "before_run"
      THEN {"ok", "abort", "raise"}
    ELSE {"ok"}

\* per hook, the ways the middlewares of the chain may behave in one call
ChoicesOfHook ==
    [hook \in Hooks |->
        {ch \in [1..Len(Chain) -> {"ok", "abort", "raise"}] :
            \A i \in 1..Len(Chain) : ch[i] \in Allowed(Chain[i], hook)}]

HookChoices(hook) == ChoicesOfHook[hook]

\* a hook whose exception leaves the context aborted
MwHookFailClosed(mw, hook, c, choice) ==
    IF choice = "raise"
      THEN [ctx |-> [c EXCEPT !.aborted = TRUE,
                              !.abort_reason = "middleware failed"],
            raised |-> TRUE]
    ELSE IF mw = "InputGuard" /\ hook = "before_run"
      THEN [ctx |-> InputGuardBeforeRun(c), raised |-> FALSE]
    ELSE IF choice = "abort"
      THEN [ctx |-> [c EXCEPT !.aborted = TRUE,
                              !.abort_reason = "aborted by middleware"],
            raised |-> FALSE]
    ELSE [ctx |-> c, raised |-> FALSE]

\* one middleware's hook: the context it returns, and whether it raised
MwHook(mw, hook, c, choice) ==
    IF choice = "raise" THEN [ctx |-> c, raised |-> TRUE]
    ELSE IF mw = "InputGuard" /\ hook = "before_run"
      THEN [ctx |-> InputGuardBeforeRun(c), raised |-> FALSE]
    ELSE IF choice = "abort"
      THEN [ctx |-> [c EXCEPT !.aborted = TRUE,
                              !.abort_reason =
                                  IF mw = "TokenLimit"
                                    THEN "token limit exceeded"
                                    ELSE "aborted by middleware"],
            raised |-> FALSE]
    ELSE [ctx |-> c, raised |-> FALSE]

\* MiddlewareChain.run_before_run / run_before_tool / run_after_tool /
\* run_before_llm / run_after_llm: in registration order, stop at the
\* first middleware that finds the context aborted; a hook that raises is
\* reported to on_error and the loop goes on with the same context
RECURSIVE RunHookFrom(_, _, _, _)
RunHookFrom(i, hook, c, ch) ==
    IF i > Len(Chain) THEN c
    ELSE IF c.aborted THEN c
    ELSE RunHookFrom(i + 1, hook, MwHook(Chain[i], hook, c, ch[i]).ctx, ch)

RunHook(hook, c, ch) == RunHookFrom(1, hook, c, ch)

\* run_stream without its abort checks
IsAbortedUnchecked(c) == FALSE

\* the abort checks of run_stream after before_run, before_tool, before_llm
IsAborted(c) == c.aborted

----------------------------------------------------------------------------
(* Tool executor *)

ToolOutcomes == {"ok", "caught", "raised"}

ErrText == "connection timed out"

\* the lists get_enabled_tools can return (tool types, in sort order)
ToolLists ==
    { <<>>,
      <<"rag">>,
      <<"rag", "web_search">>,
      <<"custom_api", "web_search">> }

\* RAGTool.search / WebSearchTool.search / CustomApiTool.call under an
\* outcome of the environment: "ok" the call works, "caught" it fails and
\* the tool reports the failure in its content, "raised" it throws
ToolSearch(tool_type, outcome) ==
    IF outcome = "raised" THEN [raised |-> TRUE, content |-> <<>>]
    ELSE IF outcome = "caught"
      THEN [raised |-> FALSE,
            content |-> IF tool_type = "rag"
                          THEN <<"RAG search failed: ", ErrText>>
                          ELSE <<"Web search failed: ", ErrText>>]
    ELSE [raised |-> FALSE, content |-> <<"content">>]

\* ToolExecutor._execute_rag / _execute_web_search / _execute_custom_api
ExecuteKnown(tool_type, outcome) ==
    LET results == ToolSearch(tool_type, outcome)
    IN  IF results.raised
          THEN [raised |-> TRUE, error |-> ErrText,
                result |-> [tool_type |-> tool_type, output |-> <<>>,
                            success |-> FALSE, error |-> ""]]
        ELSE [raised |-> FALSE, error |-> "",
              result |-> [tool_type |-> tool_type,
                          output |-> results.content,
                          success |-> TRUE, error |-> ""]]

\* execute without its try/except: the exception of the tool escapes
ExecuteNoCatch(tool_type, outcome) == ExecuteKnown(tool_type, outcome)

\* ToolExecutor.execute: the value returned, or the exception that escapes
Execute(tool_type, outcome) ==
    IF tool_type \in {"rag", "web_search", "custom_api"}
      THEN LET r == ExecuteKnown(tool_type, outcome)
           IN  IF r.raised
                 THEN [raised |-> FALSE, error |-> "",
                       result |-> [tool_type |-> tool_type,
                                   output |-> <<"Tool execution failed: ",
                                                r.error>>,
                                   success |-> FALSE, error |-> r.error]]
               ELSE r
    ELSE [raised |-> FALSE, error |-> "",
          result |-> [tool_type |-> tool_type,
                      output |-> <<"Unknown tool type: ", tool_type>>,
                      success |-> FALSE, error |-> ""]]

\* _should_use_tool that lets every enabled tool run
ShouldUseAnyTool(intent_type, tool_type) == TRUE

\* ReActAgent._should_use_tool
ShouldUseTool(intent_type, tool_type) ==
    LET allowed == IF intent_type = "rag_search" THEN {"rag"}
                   ELSE IF intent_type = "web_search" THEN {"web_search"}
                   ELSE IF intent_type = "hybrid" THEN {"rag", "web_search"}
                   ELSE {}
    IN  tool_type \in allowed

----------------------------------------------------------------------------
(* LLM stream, evaluation, re-query *)

NoToken == ""

Tok(t) == [token |-> t, usage |-> FALSE]

UsageItem == [token |-> NoToken, usage |-> TRUE]

\* what _stream_llm can yield, item by item
LlmOutputs ==
    { <<>>,
      <<Tok("a"), Tok("b"), UsageItem>> }

ZeroUsage == [prompt_tokens |-> 0, completion_tokens |-> 0, total_tokens |-> 0]

UsageDelta == [prompt_tokens |-> 1, completion_tokens |-> 1, total_tokens |-> 2]

\* a total that is started again with every usage delta
ReplaceUsage(u, d) == d

\* "for key in total_usage: total_usage[key] += usage.get(key, 0)"
AddUsage(u, d) ==
    [prompt_tokens |-> u.prompt_tokens + d.prompt_tokens,
     completion_tokens |-> u.completion_tokens + d.completion_tokens,
     total_tokens |-> u.total_tokens + d.total_tokens]

\* the scores Evaluator.evaluate can return for a response: 0 for an empty
\* one, otherwise a value that depends on the text the LLM produced
ScoreValues == {60, 70, 85}

EvaluateRange(response) == IF response = <<>> THEN {0} ELSE ScoreValues

\* the stream consumed from its end
NextItemFromEnd(out, pos) == out[Len(out) - pos]

\* the item the next step of "async for ... in self._stream_llm" receives
NextItem(out, pos) == out[pos + 1]

\* a result put in front of the list
PrependResult(results, r) == <<r>> \o results

\* "tool_results.append(tool_output)"
AppendResult(results, r) == Append(results, r)

\* the while condition of run_stream
LoopContinues(it, max) == it < max

\* finalize only on a passing score
FinalizeOnPassOnly(pass, it, max) == pass

\* finalize only when both conditions hold
FinalizeOnBoth(pass, it, max) == pass /\ it >= max

\* "if passed or iteration >= self.max_iterations"
Finalize(pass, it, max) == pass \/ it >= max

\* the re-query rewrite of the local variable query
Requery(q) == <<TEMPLATE>> \o q

----------------------------------------------------------------------------
(* State of one ReActAgent and of the run_stream generator *)

VARIABLES
    pc,               \* position of the generator in run_stream
    raw_query,        \* the query argument of run_stream
    agent_tools,      \* the agent's enabled tools, in sort order
    max_iterations,   \* self.max_iterations
    ctx,              \* the AgentContext of the run
    query,            \* local variable query
    iteration,        \* local variable iteration
    intent,           \* intent.intent_type of the current iteration
    tools,            \* local variable tools
    tool_idx,         \* position of the for loop in tools
    tool_results,     \* local variable tool_results
    exec_context,     \* the context argument of the last execute call
    invoked,          \* the tool invocations of the run and their outcomes
    llm_out,          \* what the current _stream_llm generator yields
    llm_pos,          \* how many of its items were consumed
    full_response,    \* local variable full_response
    total_usage,      \* local variable total_usage
    score,            \* local variable score
    passed,           \* local variable passed
    exc,              \* the exception caught by "except Exception as exc"
    tracked,          \* the usage records TokenTracker.track has committed
    after_run_calls,  \* per middleware, the number of after_run calls
    last_event,       \* the event yielded last
    emitted,          \* the types of the events yielded in this run
    event_count,      \* number of evaluation, answer_end and error events
    yield_count       \* number of events yielded in this run

\* the variables of one ReActAgent
runVars == <<pc, raw_query, agent_tools, max_iterations, ctx, query,
             iteration, intent, tools, tool_idx, tool_results, exec_context,
             invoked, llm_out, llm_pos, full_response, total_usage, score,
             passed, exc, tracked, after_run_calls, last_event, emitted,
             event_count, yield_count>>

(* State of one MiddlewareChain and of the context it is called on *)
VARIABLES
    chain_mws,        \* self._middlewares, in registration order
    chain_ctx,        \* the AgentContext the hooks are called on
    chain_hook,       \* the run_* method called last
    chain_calls,      \* the middleware methods that call invoked, in order
    chain_after,      \* those the last run_after_run invoked, in order
    chain_escaped     \* whether an exception left the call of chain_hook

chainVars == <<chain_mws, chain_ctx, chain_hook, chain_calls, chain_after,
               chain_escaped>>

(* State of the quota tables and of the runs of one user *)
VARIABLES
    limits,           \* the rows of token_limits, in the order they are fetched
    usage_logs,       \* the rows of usage_logs, in insertion order
    now,              \* the clock, in minutes
    runs              \* per concurrent run of the user, where it stands

quotaVars == <<limits, usage_logs, now, runs>>

(* State of the vector store and of the agents table *)
VARIABLES
    rows,             \* the rows of snap_vec_ebd, over all partitions
    partitions,       \* the agents that have a partition
    next_id,          \* the number of rows inserted so far, plus one
    agent_use         \* per agent, the use_yn flag of its row in agents

storeVars == <<rows, partitions, next_id, agent_use>>

(* State of one call of EmbeddingService.process_agent_files *)
VARIABLES
    ing_files,        \* the agent's active files, in the order fetched
    ing_pc,           \* position in process_agent_files
    ing_i,            \* how many files the for loop has taken
    files_processed,  \* local variable files_processed
    chunks_created    \* local variable chunks_created

ingestVars == <<ing_files, ing_pc, ing_i, files_processed, chunks_created>>

(* State of one call of TextChunker.chunk *)
VARIABLES
    chunk_text,       \* the text argument
    chunk_size,       \* self.chunk_size
    chunk_overlap,    \* self.chunk_overlap
    chunk_pc,         \* whether chunk has returned
    chunk_result,     \* the list chunk returned
    split_start       \* local variable start of _split_by_length

chunkVars == <<chunk_text, chunk_size, chunk_overlap, chunk_pc, chunk_result,
               split_start>>

(* State of one call of ChatService.send_message_stream *)
VARIABLES
    chat_pc,             \* position of the service in its loop over run_stream
    chat_seen,           \* how many events of the run it has received
    chat_full_response,  \* local variable full_response
    chat_forwarded,      \* the tokens of the answer_token events passed on
    chat_message         \* the content of the assistant message saved

chatVars == <<chat_pc, chat_seen, chat_full_response, chat_forwarded,
              chat_message>>

vars == <<runVars, chainVars, quotaVars, storeVars, ingestVars, chunkVars,
          chatVars>>

\* what a step of run_stream leaves alone
others == <<chainVars, quotaVars, storeVars, ingestVars, chunkVars,
            chatVars>>

\* the variables that hold the stream of events
evs == <<last_event, emitted, event_count, yield_count>>

NoEvent ==
    [type |-> "none", iteration |-> 0, tool |-> "", intent |-> "",
     token |-> NoToken, score |-> 0, pass |-> FALSE, success |-> FALSE,
     usage |-> ZeroUsage, error |-> ""]

\* "yield event_type, event_data"
Emit(e) ==
    /\ last_event' = e
    /\ emitted' = emitted \cup {e.type}
    /\ event_count' = IF e.type \in DOMAIN event_count
                        THEN [event_count EXCEPT ![e.type] = @ + 1]
                        ELSE event_count
    /\ yield_count' = yield_count + 1

ErrorEvent(text) == [NoEvent EXCEPT !.type = "error", !.error = text]

\* MiddlewareChain.run_after_run: after_run of every middleware
RunAfterRun == [i \in 1..Len(Chain) |-> after_run_calls[i] + 1]

\* an abort path without its "return": it goes on to the last statement
AbortFallThrough == "after_run"

\* where run_stream goes after the after_run call of an abort path ("return")
AbortReturn == "done"

StartState ==
    /\ pc = "start"
    /\ raw_query \in RawQueries
    /\ agent_tools \in ToolLists
    /\ max_iterations \in 1..MaxIter
    /\ ctx = NewContext(<<>>)
    /\ query = <<>>
    /\ iteration = 0
    /\ intent = ""
    /\ tools = <<>>
    /\ tool_idx = 0
    /\ tool_results = <<>>
    /\ exec_context = <<>>
    /\ invoked = <<>>
    /\ llm_out = <<>>
    /\ llm_pos = 0
    /\ full_response = <<>>
    /\ total_usage = ZeroUsage
    /\ score = 0
    /\ passed = FALSE
    /\ exc = ""
    /\ tracked = <<>>
    /\ after_run_calls = [i \in 1..Len(Chain) |-> 0]
    /\ last_event = NoEvent
    /\ emitted = {}
    /\ event_count = [t \in {"evaluation", "answer_end", "error"} |-> 0]
    /\ yield_count = 0

\* no ReActAgent is running
RunOff ==
    /\ pc = "off"
    /\ raw_query = <<>>
    /\ agent_tools = <<>>
    /\ max_iterations = 1
    /\ ctx = NewContext(<<>>)
    /\ query = <<>>
    /\ iteration = 0
    /\ intent = ""
    /\ tools = <<>>
    /\ tool_idx = 0
    /\ tool_results = <<>>
    /\ exec_context = <<>>
    /\ invoked = <<>>
    /\ llm_out = <<>>
    /\ llm_pos = 0
    /\ full_response = <<>>
    /\ total_usage = ZeroUsage
    /\ score = 0
    /\ passed = FALSE
    /\ exc = ""
    /\ tracked = <<>>
    /\ after_run_calls = [i \in 1..Len(Chain) |-> 0]
    /\ last_event = NoEvent
    /\ emitted = {}
    /\ event_count = [t \in {"evaluation", "answer_end", "error"} |-> 0]
    /\ yield_count = 0

\* no MiddlewareChain is being called on its own
ChainOff ==
    /\ chain_mws = <<>>
    /\ chain_ctx = NewContext(<<>>)
    /\ chain_hook = "none"
    /\ chain_calls = <<>>
    /\ chain_after = <<>>
    /\ chain_escaped = FALSE

\* no quota tables
QuotaOff ==
    /\ limits = <<>>
    /\ usage_logs = <<>>
    /\ now = 0
    /\ runs = <<>>

\* the vector store of a fresh database: no partition, no row
StoreInit ==
    /\ rows = {}
    /\ partitions = {}
    /\ next_id = 1
    /\ agent_use = [a \in {"A", "B"} |-> "Y"]

\* process_agent_files is not running
IngestOff ==
    /\ ing_files = <<>>
    /\ ing_pc = "off"
    /\ ing_i = 0
    /\ files_processed = 0
    /\ chunks_created = 0

\* no TextChunker is being called
ChunkOff ==
    /\ chunk_text = <<>>
    /\ chunk_size = 1
    /\ chunk_overlap = 0
    /\ chunk_pc = "off"
    /\ chunk_result = <<>>
    /\ split_start = 0

\* ChatService.send_message_stream is not running
ChatOff ==
    /\ chat_pc = "off"
    /\ chat_seen = 0
    /\ chat_full_response = <<>>
    /\ chat_forwarded = <<>>
    /\ chat_message = <<>>

Init ==
    /\ StartState
    /\ ChainOff
    /\ QuotaOff
    /\ StoreInit
    /\ IngestOff
    /\ ChunkOff
    /\ ChatOff

\* run_stream up to the first yield or the loop: build the context, run the
\* before_run hooks, abort or initialise the locals
BeforeRun ==
    /\ UNCHANGED others
    /\ pc = "start"
    /\ \E ch \in HookChoices("before_run") :
         LET c == RunHook("before_run", NewContext(raw_query), ch)
         IN  /\ ctx' = c
             /\ IF IsAborted(c)
                  THEN /\ Emit(ErrorEvent(c.abort_reason))
                       /\ pc' = "abort_after_run"
                       /\ UNCHANGED <<query, iteration, tool_results,
                                      total_usage>>
                  ELSE /\ query' = c.query
                       /\ iteration' = 0
                       /\ tool_results' = <<>>
                       /\ total_usage' = ZeroUsage
                       /\ pc' = "loop"
                       /\ UNCHANGED evs
    /\ UNCHANGED <<raw_query, agent_tools, max_iterations, intent, tools,
                   tool_idx, exec_context, invoked, llm_out, llm_pos,
                   full_response, score, passed, exc, tracked,
                   after_run_calls>>

\* "await self.mw_chain.run_after_run(ctx); return" of the three abort paths
AbortAfterRun ==
    /\ UNCHANGED others
    /\ pc = "abort_after_run"
    /\ after_run_calls' = RunAfterRun
    /\ pc' = AbortReturn
    /\ UNCHANGED <<raw_query, agent_tools, max_iterations, ctx, query,
                   iteration, intent, tools, tool_idx, tool_results,
                   exec_context, invoked, llm_out, llm_pos, full_response,
                   total_usage, score, passed, exc, tracked>>
    /\ UNCHANGED evs

\* the loop head and step 1: classify the intent and yield "thinking"
Classifying ==
    /\ UNCHANGED others
    /\ pc = "loop"
    /\ IF LoopContinues(iteration, max_iterations)
         THEN LET r == Classify(query, tool_results, "")
              IN  /\ iteration' = iteration + 1
                  /\ intent' = r.intent_type
                  /\ Emit([NoEvent EXCEPT !.type = "thinking",
                                          !.intent = r.intent_type,
                                          !.iteration = iteration + 1])
                  /\ pc' = "tools"
         ELSE /\ pc' = "after_run"
              /\ UNCHANGED <<iteration, intent>>
              /\ UNCHANGED evs
    /\ UNCHANGED <<raw_query, agent_tools, max_iterations, ctx, query, tools,
                   tool_idx, tool_results, exec_context, invoked, llm_out,
                   llm_pos, full_response, total_usage, score, passed, exc,
                   tracked, after_run_calls>>

\* step 2: fetch the enabled tools unless the intent is general_chat; the
\* database query may raise
GetEnabledTools ==
    /\ UNCHANGED others
    /\ pc = "tools"
    /\ \/ /\ intent # "general_chat"
          /\ tools' = agent_tools
          /\ tool_idx' = 1
          /\ pc' = "tool_loop"
          /\ exc' = exc
       \/ /\ intent # "general_chat"
          /\ exc' = "enabled tools query failed"
          /\ pc' = "except"
          /\ UNCHANGED <<tools, tool_idx>>
       \/ /\ intent = "general_chat"
          /\ pc' = "before_llm"
          /\ UNCHANGED <<tools, tool_idx, exc>>
    /\ UNCHANGED <<raw_query, agent_tools, max_iterations, ctx, query,
                   iteration, intent, tool_results, exec_context, invoked,
                   llm_out, llm_pos, full_response, total_usage, score,
                   passed, tracked, after_run_calls>>
    /\ UNCHANGED evs

\* "for tool in tools": the loop is over, or the tool is not for this intent
NextTool ==
    /\ UNCHANGED others
    /\ pc = "tool_loop"
    /\ \/ /\ tool_idx > Len(tools)
          /\ pc' = "before_llm"
          /\ UNCHANGED tool_idx
       \/ /\ tool_idx <= Len(tools)
          /\ ~ShouldUseTool(intent, tools[tool_idx])
          /\ tool_idx' = tool_idx + 1
          /\ UNCHANGED pc
    /\ UNCHANGED <<raw_query, agent_tools, max_iterations, ctx, query,
                   iteration, intent, tools, tool_results, exec_context,
                   invoked, llm_out, llm_pos, full_response, total_usage,
                   score, passed, exc, tracked, after_run_calls>>
    /\ UNCHANGED evs

\* a tool to use: run the before_tool hooks, then yield "error" on abort or
\* "tool_start"
BeforeTool ==
    /\ UNCHANGED others
    /\ pc = "tool_loop"
    /\ tool_idx <= Len(tools)
    /\ ShouldUseTool(intent, tools[tool_idx])
    /\ \E ch \in HookChoices("before_tool") :
         LET c == RunHook("before_tool", ctx, ch)
         IN  /\ ctx' = c
             /\ IF IsAborted(c)
                  THEN /\ Emit(ErrorEvent(c.abort_reason))
                       /\ pc' = "abort_after_run"
                  ELSE /\ Emit([NoEvent EXCEPT !.type = "tool_start",
                                               !.tool = tools[tool_idx],
                                               !.iteration = iteration])
                       /\ pc' = "execute"
    /\ UNCHANGED <<raw_query, agent_tools, max_iterations, query, iteration,
                   intent, tools, tool_idx, tool_results, exec_context,
                   invoked, llm_out, llm_pos, full_response, total_usage,
                   score, passed, exc, tracked, after_run_calls>>

\* execute the tool, append its result, run the after_tool hooks and yield
\* "tool_result"
ExecuteTool ==
    /\ UNCHANGED others
    /\ pc = "execute"
    /\ \E outcome \in ToolOutcomes, ch \in HookChoices("after_tool") :
         LET r == Execute(tools[tool_idx], outcome)
         IN  IF r.raised
               THEN /\ exc' = r.error
                    /\ pc' = "except"
                    /\ exec_context' = tool_results
                    /\ invoked' = Append(invoked,
                                         [tool_type |-> tools[tool_idx],
                                          outcome |-> outcome])
                    /\ UNCHANGED <<tool_results, ctx, tool_idx>>
                    /\ UNCHANGED evs
               ELSE /\ exec_context' = tool_results
                    /\ invoked' = Append(invoked,
                                         [tool_type |-> tools[tool_idx],
                                          outcome |-> outcome])
                    /\ tool_results' = AppendResult(tool_results, r.result)
                    /\ ctx' = RunHook("after_tool", ctx, ch)
                    /\ Emit([NoEvent EXCEPT !.type = "tool_result",
                                            !.tool = tools[tool_idx],
                                            !.success = r.result.success,
                                            !.iteration = iteration])
                    /\ tool_idx' = tool_idx + 1
                    /\ pc' = "tool_loop"
                    /\ exc' = exc
    /\ UNCHANGED <<raw_query, agent_tools, max_iterations, query, iteration,
                   intent, tools, llm_out, llm_pos, full_response,
                   total_usage, score, passed, tracked, after_run_calls>>

\* step 3: build the messages, run the before_llm hooks, yield "error" on
\* abort; otherwise reset full_response and open the LLM stream, whose
\* set-up (model and key lookups in the database) may raise
BeforeLlm ==
    /\ UNCHANGED others
    /\ pc = "before_llm"
    /\ \E ch \in HookChoices("before_llm") :
         LET c == RunHook("before_llm", ctx, ch)
         IN  /\ ctx' = c
             /\ IF IsAborted(c)
                  THEN /\ Emit(ErrorEvent(c.abort_reason))
                       /\ pc' = "abort_after_run"
                       /\ UNCHANGED <<full_response, llm_out, llm_pos, exc>>
                  ELSE /\ full_response' = <<>>
                       /\ llm_pos' = 0
                       /\ UNCHANGED evs
                       /\ \/ /\ llm_out' \in LlmOutputs
                             /\ pc' = "stream"
                             /\ exc' = exc
                          \/ /\ llm_out' = <<>>
                             /\ exc' = "LLM settings query failed"
                             /\ pc' = "except"
    /\ UNCHANGED <<raw_query, agent_tools, max_iterations, query, iteration,
                   intent, tools, tool_idx, tool_results, exec_context,
                   invoked, total_usage, score, passed, tracked,
                   after_run_calls>>

\* one item of "async for token, usage in self._stream_llm(...)": a token
\* is appended to full_response and yielded as "answer_token", a usage
\* delta is added to total_usage
StreamItem ==
    /\ UNCHANGED others
    /\ pc = "stream"
    /\ llm_pos < Len(llm_out)
    /\ LET item == NextItem(llm_out, llm_pos)
       IN  /\ llm_pos' = llm_pos + 1
           /\ IF item.token # NoToken
                THEN /\ full_response' = Append(full_response, item.token)
                     /\ Emit([NoEvent EXCEPT !.type = "answer_token",
                                             !.token = item.token])
                ELSE /\ UNCHANGED full_response
                     /\ UNCHANGED evs
           /\ total_usage' = IF item.usage
                               THEN AddUsage(total_usage, UsageDelta)
                               ELSE total_usage
    /\ UNCHANGED <<pc, raw_query, agent_tools, max_iterations, ctx, query,
                   iteration, intent, tools, tool_idx, tool_results,
                   exec_context, invoked, llm_out, score, passed, exc,
                   tracked, after_run_calls>>

\* the stream is exhausted: run the after_llm hooks, step 4: evaluate the
\* response and yield "evaluation"
Evaluating ==
    /\ UNCHANGED others
    /\ pc = "stream"
    /\ llm_pos = Len(llm_out)
    /\ \E ch \in HookChoices("after_llm"), s \in EvaluateRange(full_response) :
         /\ ctx' = RunHook("after_llm", ctx, ch)
         /\ score' = s
         /\ passed' = (s >= EvalThreshold)
         /\ Emit([NoEvent EXCEPT !.type = "evaluation",
                                 !.score = s,
                                 !.pass = (s >= EvalThreshold),
                                 !.iteration = iteration])
    /\ pc' = "decide"
    /\ UNCHANGED <<raw_query, agent_tools, max_iterations, query, iteration,
                   intent, tools, tool_idx, tool_results, exec_context,
                   invoked, llm_out, llm_pos, full_response, total_usage,
                   exc, tracked, after_run_calls>>

\* after the evaluation: finalize (track the usage, which commits to the
\* database and may raise, yield "answer_end", break) or step 5: re-query
Decide ==
    /\ UNCHANGED others
    /\ pc = "decide"
    /\ \/ /\ Finalize(passed, iteration, max_iterations)
          /\ tracked' = Append(tracked, total_usage)
          /\ Emit([NoEvent EXCEPT !.type = "answer_end",
                                  !.usage = total_usage,
                                  !.iteration = iteration,
                                  !.score = score])
          /\ pc' = "after_run"
          /\ UNCHANGED <<query, exc>>
       \/ /\ Finalize(passed, iteration, max_iterations)
          /\ exc' = "usage log commit failed"
          /\ pc' = "except"
          /\ UNCHANGED <<query, tracked>>
          /\ UNCHANGED evs
       \/ /\ ~Finalize(passed, iteration, max_iterations)
          /\ query' = Requery(query)
          /\ pc' = "loop"
          /\ UNCHANGED <<tracked, exc>>
          /\ UNCHANGED evs
    /\ UNCHANGED <<raw_query, agent_tools, max_iterations, ctx, iteration,
                   intent, tools, tool_idx, tool_results, exec_context,
                   invoked, llm_out, llm_pos, full_response, total_usage,
                   score, passed, after_run_calls>>

\* "except Exception as exc": run_on_error, yield "error" with str(exc)
HandleException ==
    /\ UNCHANGED others
    /\ pc = "except"
    /\ Emit(ErrorEvent(exc))
    /\ pc' = "after_run"
    /\ UNCHANGED <<raw_query, agent_tools, max_iterations, ctx, query,
                   iteration, intent, tools, tool_idx, tool_results,
                   exec_context, invoked, llm_out, llm_pos, full_response,
                   total_usage, score, passed, exc, tracked,
                   after_run_calls>>

\* the last statement of run_stream: run_after_run
AfterRun ==
    /\ UNCHANGED others
    /\ pc = "after_run"
    /\ after_run_calls' = RunAfterRun
    /\ pc' = "done"
    /\ UNCHANGED <<raw_query, agent_tools, max_iterations, ctx, query,
                   iteration, intent, tools, tool_idx, tool_results,
                   exec_context, invoked, llm_out, llm_pos, full_response,
                   total_usage, score, passed, exc, tracked>>
    /\ UNCHANGED evs

\* the generator is exhausted; run_stream is called again on the agent with
\* another query
NewRun ==
    /\ UNCHANGED others
    /\ pc = "done"
    /\ pc' = "start"
    /\ raw_query' \in RawQueries
    /\ UNCHANGED <<agent_tools, max_iterations>>
    /\ ctx' = NewContext(<<>>)
    /\ query' = <<>>
    /\ iteration' = 0
    /\ intent' = ""
    /\ tools' = <<>>
    /\ tool_idx' = 0
    /\ tool_results' = <<>>
    /\ exec_context' = <<>>
    /\ invoked' = <<>>
    /\ llm_out' = <<>>
    /\ llm_pos' = 0
    /\ full_response' = <<>>
    /\ total_usage' = ZeroUsage
    /\ score' = 0
    /\ passed' = FALSE
    /\ exc' = ""
    /\ tracked' = <<>>
    /\ after_run_calls' = [i \in 1..Len(Chain) |-> 0]
    /\ last_event' = NoEvent
    /\ emitted' = {}
    /\ event_count' = [t \in {"evaluation", "answer_end", "error"} |-> 0]
    /\ yield_count' = 0

Next ==
    \/ BeforeRun
    \/ AbortAfterRun
    \/ Classifying
    \/ GetEnabledTools
    \/ NextTool
    \/ BeforeTool
    \/ ExecuteTool
    \/ BeforeLlm
    \/ StreamItem
    \/ Evaluating
    \/ Decide
    \/ HandleException
    \/ AfterRun
    \/ NewRun

Spec == Init /\ [][Next]_vars

----------------------------------------------------------------------------
(* Properties of the ReAct loop *)

Terminals == event_count["answer_end"] + event_count["error"]

C2_AfterRunOnce ==
    \A i \in 1..Len(Chain) :
        /\ after_run_calls[i] <= 1
        /\ (pc = "done" => after_run_calls[i] = 1)

\* a run that ended on an abort found at before_tool or before_llm, after
\* a tool had run
C2_Witness ==
    /\ pc = "done"
    /\ ctx.aborted
    /\ "tool_result" \in emitted
    /\ last_event.type = "error"
    /\ \A i \in 1..Len(Chain) : after_run_calls[i] = 1

InputGuardAborted ==
    ctx.aborted /\ ctx.abort_reason \in {"empty query", "query too long"}

\* C3: when InputGuard aborts in before_run, the one event of the run is an
\* error event with the abort reason; no iteration starts, no tool and no
\* LLM stream is called.
C3_InputGuardAbort ==
    InputGuardAborted =>
        /\ pc \in {"abort_after_run", "done"}
        /\ emitted = {"error"}
        /\ event_count["error"] = 1
        /\ last_event = ErrorEvent(ctx.abort_reason)
        /\ iteration = 0
        /\ invoked = <<>>
        /\ tool_results = <<>>
        /\ llm_out = <<>> /\ llm_pos = 0 /\ full_response = <<>>

\* a finished run that InputGuard aborted because the query was too long
C3_Witness ==
    /\ pc = "done"
    /\ ctx.aborted
    /\ ctx.abort_reason = "query too long"
    /\ Len(ctx.query) > MaxQueryLen

\* the evaluation just yielded ends the loop
EvalEndsLoop(e) == e.score >= EvalThreshold \/ e.iteration = max_iterations

\* C4 as stated: the event after an evaluation is answer_end (with that
\* iteration number and score) when the score reached the threshold or the
\* iteration was the last, and otherwise thinking of the next iteration.
C4_Original ==
    [][(last_event.type = "evaluation" /\ last_event' # last_event) =>
          IF EvalEndsLoop(last_event)
            THEN /\ last_event'.type = "answer_end"
                 /\ last_event'.iteration = last_event.iteration
                 /\ last_event'.score = last_event.score
            ELSE /\ last_event'.type = "thinking"
                 /\ last_event'.iteration = last_event.iteration + 1]_vars

\* C4: after an evaluation whose score reached the threshold or whose
\* iteration was the last, no iteration starts: the next event is
\* answer_end with that iteration number and score, or, when
\* TokenTracker.track raised, an error event with its text; after any other
\* evaluation the next event is thinking of the next iteration.
C4_EvaluationDecides ==
    [][(last_event.type = "evaluation" /\ last_event' # last_event) =>
          IF EvalEndsLoop(last_event)
            THEN \/ /\ last_event'.type = "answer_end"
                    /\ last_event'.iteration = last_event.iteration
                    /\ last_event'.score = last_event.score
                    /\ tracked' = Append(tracked, total_usage)
                 \/ /\ last_event' = ErrorEvent("usage log commit failed")
                    /\ tracked' = tracked
            ELSE /\ last_event'.type = "thinking"
                 /\ last_event'.iteration = last_event.iteration + 1
                 /\ iteration' = last_event.iteration + 1]_vars

\* a run that re-queried once and then ended on a passing score before the
\* last iteration
C4_Witness ==
    /\ pc = "done"
    /\ last_event.type = "answer_end"
    /\ last_event.iteration = 2
    /\ last_event.score >= EvalThreshold
    /\ max_iterations > 2

\* the tokens among the first n items of an LLM output
RECURSIVE TokensOf(_, _)
TokensOf(out, n) ==
    IF n = 0 THEN <<>>
    ELSE IF out[n].token # NoToken
      THEN Append(TokensOf(out, n - 1), out[n].token)
    ELSE TokensOf(out, n - 1)

\* event f may directly follow event e
Follows(e, f) ==
    CASE e.type = "none" ->
           \/ f.type = "thinking" /\ f.iteration = 1
           \/ f.type = "error"
      [] e.type = "thinking" ->
           \/ f.type = "tool_start" /\ f.iteration = e.iteration
           \/ f.type \in {"answer_token", "evaluation", "error"}
      [] e.type = "tool_start" ->
           f.type = "tool_result" /\ f.tool = e.tool
                                  /\ f.iteration = e.iteration
      [] e.type = "tool_result" ->
           \/ f.type = "tool_start" /\ f.iteration = e.iteration
           \/ f.type \in {"answer_token", "evaluation", "error"}
      [] e.type = "answer_token" ->
           f.type \in {"answer_token", "evaluation", "error"}
      [] e.type = "evaluation" ->
           \/ f.type = "thinking" /\ f.iteration = e.iteration + 1
           \/ f.type \in {"answer_end", "error"}
      [] OTHER -> FALSE

\* C5: the events of an iteration come in the order thinking, tool_start /
\* tool_result pairs of one tool each, answer_token in generation order,
\* evaluation; answer_end follows an evaluation only and nothing follows
\* answer_end (or error) in the run.
C5_EventOrder ==
    [][last_event' # last_event =>
          \/ /\ pc = "done"
             /\ last_event' = NoEvent
          \/ /\ Follows(last_event, last_event')
             /\ last_event'.type = "evaluation" =>
                    last_event'.iteration = iteration
             /\ last_event'.type = "tool_start" =>
                    last_event'.tool = tools[tool_idx]
             /\ last_event'.type = "answer_token" =>
                    /\ full_response' =
                           SubSeq(TokensOf(llm_out, Len(llm_out)),
                                  1, Len(full_response'))
                    /\ last_event'.token = full_response'[Len(full_response')]
             /\ last_event'.type = "answer_end" =>
                    last_event.iteration = iteration]_vars

\* an iteration that yielded a tool pair, two tokens and its evaluation
C5_Witness ==
    /\ last_event.type = "evaluation"
    /\ {"tool_start", "tool_result", "answer_token"} \subseteq emitted
    /\ full_response = <<"a", "b">>
    /\ iteration = 2

\* the generator is inside iteration number "iteration"
InIteration ==
    pc \in {"tools", "tool_loop", "execute", "before_llm", "stream", "decide"}

\* C6: in every iteration after the first, the query is the elaboration
\* template applied once to the normalized original query of the run.
C6_RequeryFromOriginal ==
    (InIteration /\ iteration >= 2) => query = <<TEMPLATE>> \o ctx.query

IsPrefix(s, t) == Len(s) <= Len(t) /\ SubSeq(t, 1, Len(s)) = s

\* C7: within a run the list of tool results only grows at its end, by the
\* result of the tool just invoked, which received the list as it was
\* before; the results are those of the invocations of the run, in
\* invocation order; only the start of a new run empties the list.
C7_AppendOnly ==
    [][\/ /\ pc' = "start"
          /\ tool_results' = <<>>
       \/ /\ pc' # "start"
          /\ IsPrefix(tool_results, tool_results')
          /\ Len(tool_results') <= Len(tool_results) + 1
          /\ Len(tool_results') = Len(invoked')
          /\ \A i \in 1..Len(tool_results') :
                 tool_results'[i].tool_type = invoked'[i].tool_type
          /\ Len(tool_results') = Len(tool_results) + 1 =>
                 /\ last_event.type = "tool_start"
                 /\ last_event'.type = "tool_result"
                 /\ tool_results'[Len(tool_results')].tool_type
                        = last_event.tool
                 /\ exec_context' = tool_results
          /\ (pc = "start" /\ pc' = "loop") => tool_results' = <<>>]_vars

\* the second iteration of a run adds results to those of the first
C7_Witness ==
    /\ iteration = 2
    /\ last_event.type = "tool_result"
    /\ Len(tool_results) = 3
    /\ exec_context = SubSeq(tool_results, 1, 2)

C9_ExecuteNeverRaises ==
    /\ Len(tool_results) = Len(invoked)
    /\ \A i \in 1..Len(invoked) :
          invoked[i].outcome = "raised" =>
              /\ tool_results[i].success = FALSE
              /\ tool_results[i].output = <<"Tool execution failed: ", ErrText>>
              /\ tool_results[i].error = ErrText
    /\ exc # ErrText
    /\ last_event.type = "error" => last_event.error # ErrText
    /\ pc = "execute" <=> last_event.type = "tool_start"

\* a run whose tool threw went on to stream tokens and to evaluate
C9_Witness ==
    /\ last_event.type = "evaluation"
    /\ iteration = 1
    /\ full_response # <<>>
    /\ \E i \in 1..Len(invoked) : invoked[i].outcome = "raised"

\* C10: the result of every failed tool invocation, also of one whose
\* failure the tool caught and reported in its content, has success = false.
C10_FailureNotSuccess ==
    \A i \in 1..Len(tool_results) :
        invoked[i].outcome # "ok" => tool_results[i].success = FALSE

----------------------------------------------------------------------------
(* The middleware chain on its own: MiddlewareChain of middleware/base.py *)

\* the lists a chain is built from: the default list of ReActAgent with a
\* caller's middleware behind it, and lists a caller passes instead
Registrations ==
    {Chain, <<"Custom", "Logging", "Custom">>, <<"Custom", "Custom">>}

\* what on_error and after_run of one middleware may do: the base class
\* returns, LoggingMiddleware.after_run raises KeyError when its before_run
\* did not run, a caller's middleware may raise
AllowedHandler(mw, fn) ==
    IF mw = "Custom" THEN {"ok", "raise"}
    ELSE IF mw = "Logging" /\ fn = "after_run" THEN {"ok", "raise"}
    ELSE {"ok"}

\* the ways the hooks of the middlewares of mws may behave in one call
HookBehaviours(mws, hook) ==
    {ch \in [1..Len(mws) -> {"ok", "abort", "raise"}] :
        \A i \in 1..Len(mws) : ch[i] \in Allowed(mws[i], hook)}

\* the ways their on_error or after_run may behave in one call
HandlerBehaviours(mws, fn) ==
    {eh \in [1..Len(mws) -> {"ok", "raise"}] :
        \A i \in 1..Len(mws) : eh[i] \in AllowedHandler(mws[i], fn)}

\* one invocation of method fn of the middleware at position i
Call(i, fn, outcome) == [mw |-> i, fn |-> fn, outcome |-> outcome]

\* run_on_error without its try/except: the first on_error that raises ends
\* the loop and the exception leaves the chain
RunOnErrorNoCatch(mws, eh) ==
    LET raising == {i \in 1..Len(mws) : eh[i] = "raise"}
        last == IF raising = {} THEN Len(mws)
                ELSE CHOOSE i \in raising : \A j \in raising : i <= j
    IN  [calls |-> [i \in 1..last |-> Call(i, "on_error", eh[i])],
         escaped |-> raising # {}]

\* MiddlewareChain.run_on_error (and _propagate_error, which calls it):
\* on_error of every middleware in registration order; an exception of
\* on_error is logged and the loop goes on
RunOnError(mws, eh) ==
    [calls |-> [i \in 1..Len(mws) |-> Call(i, "on_error", eh[i])],
     escaped |-> FALSE]

\* a hook loop without "if ctx.aborted: break"
BreakNever(c) == FALSE

\* "if ctx.aborted: break" at the head of every hook loop
BreakOnAbort(c) == c.aborted

\* MiddlewareChain.run_before_run / run_before_tool / run_after_tool /
\* run_before_llm / run_after_llm from position i on, with the invocations
\* made so far: the context returned, the invocations in order, and whether
\* an exception left the method
RECURSIVE RunHookTrace(_, _, _, _, _, _, _)
RunHookTrace(mws, i, hook, c, ch, eh, calls) ==
    IF i > Len(mws) \/ BreakOnAbort(c)
      THEN [ctx |-> c, calls |-> calls, escaped |-> FALSE]
    ELSE LET r == MwHook(mws[i], hook, c, ch[i])
         IN  IF r.raised
               THEN LET e == RunOnError(mws, eh)
                        cs == Append(calls, Call(i, hook, "raise")) \o e.calls
                    IN  IF e.escaped
                          THEN [ctx |-> r.ctx, calls |-> cs, escaped |-> TRUE]
                        ELSE RunHookTrace(mws, i + 1, hook, r.ctx, ch, eh, cs)
             ELSE RunHookTrace(mws, i + 1, hook, r.ctx, ch, eh,
                      Append(calls,
                             Call(i, hook, IF r.ctx.aborted /\ ~c.aborted
                                             THEN "abort" ELSE "ok")))

\* MiddlewareChain.run_after_run: after_run of every middleware in
\* registration order; an exception of after_run is logged and the loop
\* goes on
RunAfterRunTrace(mws, ah) ==
    [i \in 1..Len(mws) |-> Call(i, "after_run", ah[i])]

\* a chain was built and a context constructed for a run
InitChain ==
    /\ RunOff
    /\ chain_mws \in Registrations
    /\ chain_ctx \in {NewContext(q) : q \in RawQueries}
    /\ chain_hook = "new"
    /\ chain_calls = <<>>
    /\ chain_after = <<>>
    /\ chain_escaped = FALSE
    /\ QuotaOff
    /\ StoreInit
    /\ IngestOff
    /\ ChunkOff
    /\ ChatOff

\* one call of run_before_run, run_before_tool, run_after_tool,
\* run_before_llm or run_after_llm on the context
ChainRunHook ==
    /\ \E hook \in Hooks :
         \E ch \in HookBehaviours(chain_mws, hook) :
           \E eh \in HandlerBehaviours(chain_mws, "on_error") :
             LET t == RunHookTrace(chain_mws, 1, hook, chain_ctx, ch, eh, <<>>)
             IN  /\ chain_ctx' = t.ctx
                 /\ chain_calls' = t.calls
                 /\ chain_escaped' = t.escaped
                 /\ chain_hook' = hook
    /\ UNCHANGED <<chain_mws, chain_after>>
    /\ UNCHANGED <<runVars, chatVars, quotaVars, storeVars, ingestVars,
                   chunkVars>>

\* one call of run_after_run on the context
ChainRunAfterRun ==
    /\ \E ah \in HandlerBehaviours(chain_mws, "after_run") :
         chain_after' = RunAfterRunTrace(chain_mws, ah)
    /\ UNCHANGED <<chain_mws, chain_ctx, chain_hook, chain_calls,
                   chain_escaped>>
    /\ UNCHANGED <<runVars, chatVars, quotaVars, storeVars, ingestVars,
                   chunkVars>>

\* the next run: run_stream constructs a new AgentContext
ChainNewContext ==
    /\ chain_ctx' \in {NewContext(q) : q \in RawQueries}
    /\ chain_hook' = "new"
    /\ chain_calls' = <<>>
    /\ chain_after' = <<>>
    /\ chain_escaped' = FALSE
    /\ UNCHANGED chain_mws
    /\ UNCHANGED <<runVars, chatVars, quotaVars, storeVars, ingestVars,
                   chunkVars>>

NextChain ==
    \/ ChainRunHook
    \/ ChainRunAfterRun
    \/ ChainNewContext

SpecChain == InitChain /\ [][NextChain]_vars

----------------------------------------------------------------------------
(* Properties of the middleware chain *)

\* C11: in one call of run_before_run, run_before_tool, run_after_tool,
\* run_before_llm or run_after_llm, once the hook of a middleware has set
\* the abort flag, the hook of no middleware registered after it is
\* invoked; run_after_run invokes after_run of every registered middleware,
\* in registration order, whether or not the context is aborted.
C11_AbortSkipsRest ==
    /\ chain_hook \in Hooks =>
         \A k \in 1..Len(chain_calls) :
            (chain_calls[k].fn = chain_hook /\ chain_calls[k].outcome = "abort")
              => \A j \in (k + 1)..Len(chain_calls) :
                    chain_calls[j].fn # chain_hook
    /\ chain_after # <<>> =>
         /\ Len(chain_after) = Len(chain_mws)
         /\ \A i \in 1..Len(chain_after) :
               chain_after[i].mw = i /\ chain_after[i].fn = "after_run"

\* a hook aborted with middlewares registered behind it, and run_after_run
\* was then called on the aborted context
C11_Witness ==
    /\ chain_hook \in Hooks \ {"before_run"}
    /\ chain_ctx.aborted
    /\ \E k \in 1..Len(chain_calls) :
          /\ chain_calls[k].outcome = "abort"
          /\ chain_calls[k].mw < Len(chain_mws)
    /\ Len(chain_after) = Len(chain_mws)

----------------------------------------------------------------------------
(* Quota enforcement: TokenLimitMiddleware.before_run and TokenTracker.track *)

\* a nullable column: <<>> is NULL (None), <<v>> holds v
Null == <<>>

Some(v) == <<v>>

\* the acting user of the runs; "v@x" is another user
Email == "u@x"

\* a row of token_limits
Limit(user_email, limit_type, max_tokens, max_api_calls, is_active, use_yn) ==
    [user_email |-> user_email, limit_type |-> limit_type,
     max_tokens |-> max_tokens, max_api_calls |-> max_api_calls,
     is_active |-> is_active, use_yn |-> use_yn]

\* the contents of token_limits the runs are checked against, in the order
\* the select returns them
LimitTables ==
    { <<>>,
      <<Limit(Some(Email), "daily", Some(1000), Null, TRUE, "Y")>>,
      <<Limit(Null, "per_minute", Some(1000), Some(2), TRUE, "Y"),
        Limit(Some(Email), "total", Null, Some(3), TRUE, "Y")>>,
      <<Limit(Some(Email), "monthly", Some(0), Null, TRUE, "Y")>>,
      <<Limit(Some("v@x"), "daily", Some(400), Null, TRUE, "Y"),
        Limit(Some(Email), "daily", Some(400), Null, FALSE, "Y"),
        Limit(Null, "daily", Null, Some(1), TRUE, "N")>> }

\* total_usage["total_tokens"] of a run that reaches track
TokenAmounts == {400, 600}

\* the runs of the user that may be in flight together
Runs == {"r1", "r2"}

\* _PERIOD_DELTAS.get(limit.limit_type), in minutes
PeriodDelta(limit_type) ==
    CASE limit_type = "per_minute" -> Some(1)
      [] limit_type = "per_hour" -> Some(60)
      [] limit_type = "per_day" -> Some(1440)
      [] limit_type = "daily" -> Some(1440)
      [] limit_type = "monthly" -> Some(43200)
      [] OTHER -> Null

\* _period_label: the Korean labels, transliterated
PeriodLabel(limit_type) ==
    CASE limit_type = "per_minute" -> "bundang"
      [] limit_type = "per_hour" -> "sigandang"
      [] limit_type = "per_day" -> "ilil"
      [] limit_type = "daily" -> "ilil"
      [] limit_type = "monthly" -> "wolgan"
      [] limit_type = "total" -> "jeonche"
      [] OTHER -> limit_type

\* "since = now - delta if delta else None"
Since(limit_type, t) ==
    LET delta == PeriodDelta(limit_type)
    IN  IF delta # Null THEN Some(t - delta[1]) ELSE Null

\* the select of active limits of the user or of nobody, in table order
FetchLimits(tbl, email) ==
    SelectSeq(tbl, LAMBDA l : /\ l.is_active
                              /\ l.use_yn = "Y"
                              /\ (l.user_email = Some(email)
                                    \/ l.user_email = Null))

\* the rows of usage_logs the aggregation query of one limit reads
UsageRows(logs, email, since) ==
    {i \in 1..Len(logs) :
        /\ logs[i].user_email = email
        /\ (since # Null => logs[i].created_at >= since[1])}

\* coalesce(sum(total_tokens), 0) over those rows
RECURSIVE SumTokens(_, _)
SumTokens(logs, idx) ==
    IF idx = {} THEN 0
    ELSE LET i == CHOOSE j \in idx : TRUE
         IN  logs[i].total_tokens + SumTokens(logs, idx \ {i})

DigitChar(d) == <<"0", "1", "2", "3", "4", "5", "6", "7", "8", "9">>[d + 1]

\* the decimal digits of a natural number
RECURSIVE Decimal(_)
Decimal(n) ==
    IF n < 10 THEN <<DigitChar(n)>>
    ELSE Decimal(n \div 10) \o <<DigitChar(n % 10)>>

\* format(n, ","): the digits in groups of three, separated by commas
RECURSIVE Grouped(_)
Grouped(n) ==
    IF n < 1000 THEN Decimal(n)
    ELSE Grouped(n \div 1000)
           \o <<",", DigitChar((n \div 100) % 10), DigitChar((n \div 10) % 10),
                DigitChar(n % 10)>>

\* the two abort reasons: label, kind of cap, number used, cap
AbortReason(limit_type, kind, used, cap) ==
    <<PeriodLabel(limit_type), kind, "(">> \o Grouped(used) \o <<"/">>
        \o Grouped(cap) \o <<")">>

\* a comparison that lets usage equal to the cap pass
CapExceeded(used, cap) == cap # Null /\ cap[1] # 0 /\ used > cap[1]

\* "limit.max_tokens and used_tokens >= limit.max_tokens", and the same
\* for max_api_calls: None and 0 are falsy
CapReached(used, cap) == cap # Null /\ cap[1] # 0 /\ used >= cap[1]

\* the for loop of before_run from the i-th fetched limit on: the outcome of
\* the first limit that is breached, the token cap before the call cap
RECURSIVE CheckLimits(_, _, _, _, _)
CheckLimits(ls, i, logs, email, t) ==
    IF i > Len(ls) THEN [aborted |-> FALSE, abort_reason |-> <<>>]
    ELSE LET limit == ls[i]
             idx == UsageRows(logs, email, Since(limit.limit_type, t))
             used_tokens == SumTokens(logs, idx)
             api_calls == Cardinality(idx)
         IN  IF CapReached(used_tokens, limit.max_tokens)
               THEN [aborted |-> TRUE,
                     abort_reason |-> AbortReason(limit.limit_type, "tokens",
                                          used_tokens, limit.max_tokens[1])]
             ELSE IF CapReached(api_calls, limit.max_api_calls)
               THEN [aborted |-> TRUE,
                     abort_reason |-> AbortReason(limit.limit_type, "calls",
                                          api_calls, limit.max_api_calls[1])]
             ELSE CheckLimits(ls, i + 1, logs, email, t)

\* TokenLimitMiddleware.before_run at time t: what it does to the context
TokenLimitBeforeRun(tbl, logs, email, t) ==
    LET ls == FetchLimits(tbl, email)
    IN  IF ls = <<>> THEN [aborted |-> FALSE, abort_reason |-> <<>>]
        ELSE CheckLimits(ls, 1, logs, email, t)

\* a run that has not called before_run
IdleRun == [pc |-> "idle", seen |-> 0, abort_reason |-> <<>>]

\* the tables when the first run starts: the limits an administrator set,
\* and possibly usage of another user
InitQuota ==
    /\ RunOff
    /\ ChainOff
    /\ limits \in LimitTables
    /\ usage_logs \in {<<>>, <<[user_email |-> "v@x",
                               total_tokens |-> 600, created_at |-> 0]>>}
    /\ now = 0
    /\ runs = [r \in Runs |-> IdleRun]
    /\ StoreInit
    /\ IngestOff
    /\ ChunkOff
    /\ ChatOff

\* run r is started and its before_run checks the quota: a run that is not
\* aborted goes on to classification, tools and the model
QuotaBeforeRun(r) ==
    /\ runs[r].pc # "passed"
    /\ LET c == TokenLimitBeforeRun(limits, usage_logs, Email, now)
       IN  runs' = [runs EXCEPT ![r] =
                      [pc |-> IF c.aborted THEN "aborted" ELSE "passed",
                       seen |-> Len(usage_logs),
                       abort_reason |-> c.abort_reason]]
    /\ UNCHANGED <<limits, usage_logs, now>>
    /\ UNCHANGED <<runVars, chatVars, chainVars, storeVars, ingestVars,
                   chunkVars>>

\* run r reaches "await self.token_tracker.track(total_usage)": one row is
\* added to usage_logs and committed
QuotaTrack(r) ==
    /\ runs[r].pc = "passed"
    /\ Len(usage_logs) < MaxLogs
    /\ \E total_tokens \in TokenAmounts :
         usage_logs' = Append(usage_logs,
                              [user_email |-> Email,
                               total_tokens |-> total_tokens,
                               created_at |-> now])
    /\ runs' = [runs EXCEPT ![r].pc = "done"]
    /\ UNCHANGED <<limits, now>>
    /\ UNCHANGED <<runVars, chatVars, chainVars, storeVars, ingestVars,
                   chunkVars>>

\* a minute passes
QuotaTick ==
    /\ now < MaxTime
    /\ now' = now + 1
    /\ UNCHANGED <<limits, usage_logs, runs>>
    /\ UNCHANGED <<runVars, chatVars, chainVars, storeVars, ingestVars,
                   chunkVars>>

NextQuota ==
    \/ \E r \in Runs : QuotaBeforeRun(r)
    \/ \E r \in Runs : QuotaTrack(r)
    \/ QuotaTick

SpecQuota == InitQuota /\ [][NextQuota]_vars

----------------------------------------------------------------------------
(* Properties of quota enforcement *)

\* the limits the claim speaks of: active, and of the user or of nobody
ActiveLimits ==
    {i \in 1..Len(limits) :
        /\ limits[i].is_active
        /\ limits[i].use_yn = "Y"
        /\ limits[i].user_email \in {Some(Email), Null}}

\* the usage rows of the user inside the lookback window of a limit
WindowRows(limit) ==
    {i \in 1..Len(usage_logs) :
        /\ usage_logs[i].user_email = Email
        /\ (PeriodDelta(limit.limit_type) # Null =>
              usage_logs[i].created_at >= now - PeriodDelta(limit.limit_type)[1])}

TokensUsed(limit) == SumTokens(usage_logs, WindowRows(limit))

CallsUsed(limit) == Cardinality(WindowRows(limit))

TokenCapMet(limit) ==
    limit.max_tokens # Null /\ TokensUsed(limit) >= limit.max_tokens[1]

CallCapMet(limit) ==
    limit.max_api_calls # Null /\ CallsUsed(limit) >= limit.max_api_calls[1]

Breaches ==
    {i \in ActiveLimits : TokenCapMet(limits[i]) \/ CallCapMet(limits[i])}

\* the number that a run of digits and commas spells
RECURSIVE Number(_)
Number(s) ==
    IF s = <<>> THEN 0
    ELSE IF s[Len(s)] = "," THEN Number(SubSeq(s, 1, Len(s) - 1))
    ELSE 10 * Number(SubSeq(s, 1, Len(s) - 1))
           + (CHOOSE d \in 0..9 : DigitChar(d) = s[Len(s)])

\* the two numbers of an abort reason: "(used / limit)"
NumbersOf(reason) ==
    LET open == CHOOSE i \in 1..Len(reason) : reason[i] = "("
        slash == CHOOSE i \in 1..Len(reason) : reason[i] = "/"
    IN  <<Number(SubSeq(reason, open + 1, slash - 1)),
          Number(SubSeq(reason, slash + 1, Len(reason) - 1))>>

\* the step is the before_run of run r
IsBeforeRun(r) == runs'[r] # runs[r] /\ runs'[r].pc \in {"passed", "aborted"}

\* C13: before_run aborts a run exactly when some active limit of the user
\* or of nobody has a token cap that the tokens summed over its lookback
\* window have reached, or a call cap that the calls counted over it have
\* reached; the reason carries the used number and the cap of the first
\* such limit in fetched order, its token cap before its call cap.
C13_AbortsExactlyOnBreach ==
    [][\A r \in Runs :
          IsBeforeRun(r) =>
            /\ (runs'[r].pc = "aborted") <=> (Breaches # {})
            /\ Breaches # {} /\ runs'[r].pc = "aborted" =>
                 LET i == CHOOSE j \in Breaches : \A k \in Breaches : j <= k
                     limit == limits[i]
                 IN  NumbersOf(runs'[r].abort_reason) =
                       IF TokenCapMet(limit)
                         THEN <<TokensUsed(limit), limit.max_tokens[1]>>
                       ELSE <<CallsUsed(limit), limit.max_api_calls[1]>>]_vars

\* C14: the quota check reads the committed usage rows and takes no lock
\* and makes no reservation: a run passes whenever the rows committed at
\* that moment are below every positive token cap, whatever other runs of
\* the user are in flight, and a run that passed adds its usage row
\* whatever has been added since; so two runs that both pass before either
\* has added its row can leave the usage of the window above the cap.
C14_UnlockedCheckThenAct ==
    [][\A r \in Runs :
          /\ IsBeforeRun(r) =>
               /\ usage_logs' = usage_logs
               /\ runs'[r].pc = "passed" =>
                    \A i \in ActiveLimits :
                       (limits[i].max_tokens # Null
                          /\ limits[i].max_tokens[1] > 0)
                         => TokensUsed(limits[i]) < limits[i].max_tokens[1]
          /\ (runs[r].pc = "passed" /\ runs'[r].pc = "done") =>
               /\ Len(usage_logs') = Len(usage_logs) + 1
               /\ usage_logs'[Len(usage_logs')].user_email = Email]_vars

\* both runs passed the check of a daily cap of 1,000 tokens on the same
\* committed rows, which were below the cap, and both added their row: the
\* usage of the window is above the cap
C14_Witness ==
    /\ Len(limits) = 1
    /\ limits[1].max_tokens = Some(1000)
    /\ \A r \in Runs : runs[r].pc = "done"
    /\ runs["r1"].seen = runs["r2"].seen
    /\ Len(usage_logs) = runs["r1"].seen + 2
    /\ SumTokens(usage_logs, {i \in 1..runs["r1"].seen :
                                usage_logs[i].user_email = Email}) < 1000
    /\ TokensUsed(limits[1]) > 1000

----------------------------------------------------------------------------
(* The vector store: VectorStore of rag/vectorstore.py over snap_vec_ebd *)

Agents == {"A", "B"}

Files == {"F1", "F2"}

\* the embeddings of queries
QueryEmbeddings == {<<3, 4>>, <<1, 0>>, <<0, 1>>}

\* the values of top_k that are tried; 5 is the default
TopKs == {1, 2, 5}

\* the values of similarity_threshold that are tried, in millionths; 0.3 is
\* the default
Thresholds == {0, 300000, 990000}

\* the (chunks, embeddings) arguments of add_chunks that are tried
ChunkBatches ==
    { [chunks |-> <<"x">>, embeddings |-> << <<3, 4>> >>],
      [chunks |-> <<"x", "y">>, embeddings |-> << <<5, 12>>, <<3, 4>> >>],
      [chunks |-> <<"x", "y">>, embeddings |-> << <<3, 4>> >>] }

\* "1 - (embedding <=> query)": the cosine similarities of the vectors that
\* occur, in millionths; the vectors have a whole length
Similarity ==
    LET vectors == {<<3, 4>>, <<5, 12>>} \cup QueryEmbeddings
        Dot(u, v) == u[1] * v[1] + u[2] * v[2]
        Norm(v) == CHOOSE n \in 0..13 : n * n = Dot(v, v)
    IN  [u \in vectors, v \in vectors |->
            (Dot(u, v) * 1000000) \div (Norm(u) * Norm(v))]

\* round(float(row.similarity), 4), in ten-thousandths
Round4(m) == (m + 50) \div 100

\* zip(chunks, embeddings) under enumerate: the rows add_chunks builds, with
\* ids from first on
NewRows(agent_id, file_id, chunks, embeddings, first) ==
    {[id |-> first + idx, agent_id |-> agent_id, file_id |-> file_id,
      content |-> chunks[idx + 1], embedding |-> embeddings[idx + 1],
      chunk_index |-> idx, use_yn |-> "Y", updated_at |-> "add_chunks"] :
        idx \in 0..(Min(Len(chunks), Len(embeddings)) - 1)}

\* a search that is not scoped to the agent
MatchingAnyAgent(rs, agent_id, q, threshold) ==
    {r \in rs : r.use_yn = "Y" /\ Similarity[r.embedding, q] >= threshold}

\* the WHERE clause of similarity_search
Matching(rs, agent_id, q, threshold) ==
    {r \in rs : /\ r.agent_id = agent_id
                /\ r.use_yn = "Y"
                /\ Similarity[r.embedding, q] >= threshold}

\* "ORDER BY embedding <=> query LIMIT k" over the rows m; rows at the same
\* distance are taken in storage order
RECURSIVE Nearest(_, _, _)
Nearest(m, q, k) ==
    IF k = 0 \/ m = {} THEN <<>>
    ELSE LET best == CHOOSE r \in m : \A o \in m :
                        \/ Similarity[r.embedding, q] > Similarity[o.embedding, q]
                        \/ /\ Similarity[r.embedding, q] = Similarity[o.embedding, q]
                           /\ r.id <= o.id
         IN  <<best>> \o Nearest(m \ {best}, q, k - 1)

\* VectorStore.similarity_search: the list of dicts it returns
SimilaritySearch(rs, agent_id, q, top_k, threshold) ==
    LET found == Nearest(Matching(rs, agent_id, q, threshold), q, top_k)
    IN  [i \in 1..Len(found) |->
            [id |-> found[i].id, content |-> found[i].content,
             chunk_index |-> found[i].chunk_index,
             file_id |-> found[i].file_id,
             similarity |-> Round4(Similarity[found[i].embedding, q])]]

\* VectorStore.get_chunk_count
GetChunkCount(rs, agent_id) ==
    Cardinality({r \in rs : r.agent_id = agent_id /\ r.use_yn = "Y"})

\* "SET use_yn = 'N', updated_at = now()" by statement stmt
SoftDelete(r, stmt) == [r EXCEPT !.use_yn = "N", !.updated_at = stmt]

\* a delete_by_agent that removes the rows
HardDeleteByAgent(rs, agent_id) == {r \in rs : r.agent_id # agent_id}

\* the UPDATE of delete_by_agent
SoftDeleteByAgent(rs, agent_id) ==
    {IF r.agent_id = agent_id /\ r.use_yn = "Y"
       THEN SoftDelete(r, "delete_by_agent") ELSE r : r \in rs}

\* the UPDATE of delete_by_file
SoftDeleteByFile(rs, agent_id, file_id) ==
    {IF r.agent_id = agent_id /\ r.file_id = file_id /\ r.use_yn = "Y"
       THEN SoftDelete(r, "delete_by_file") ELSE r : r \in rs}

\* VectorStore.create_partition: CREATE TABLE IF NOT EXISTS ... PARTITION OF
CreatePartition(agent_id) ==
    /\ partitions' = partitions \cup {agent_id}
    /\ UNCHANGED <<rows, next_id, agent_use>>
    /\ UNCHANGED <<runVars, chatVars, chainVars, quotaVars, ingestVars,
                   chunkVars>>

\* VectorStore.drop_partition: DROP TABLE IF EXISTS, with the rows in it
DropPartition(agent_id) ==
    /\ partitions' = partitions \ {agent_id}
    /\ rows' = {r \in rows : r.agent_id # agent_id}
    /\ UNCHANGED <<next_id, agent_use>>
    /\ UNCHANGED <<runVars, chatVars, chainVars, quotaVars, ingestVars,
                   chunkVars>>

\* VectorStore.add_chunks; the list-partitioned table takes a row only when
\* the partition of its agent exists, otherwise the commit fails
AddChunks(agent_id, file_id, batch) ==
    /\ agent_id \in partitions
    /\ LET new == NewRows(agent_id, file_id, batch.chunks, batch.embeddings,
                          next_id)
       IN  /\ next_id + Cardinality(new) - 1 <= MaxRows
           /\ rows' = rows \cup new
           /\ next_id' = next_id + Cardinality(new)
    /\ UNCHANGED <<partitions, agent_use>>
    /\ UNCHANGED <<runVars, chatVars, chainVars, quotaVars, ingestVars,
                   chunkVars>>

\* VectorStore.delete_by_agent
DeleteByAgent(agent_id) ==
    /\ rows' = SoftDeleteByAgent(rows, agent_id)
    /\ UNCHANGED <<partitions, next_id, agent_use>>
    /\ UNCHANGED <<runVars, chatVars, chainVars, quotaVars, ingestVars,
                   chunkVars>>

\* VectorStore.delete_by_file
DeleteByFile(agent_id, file_id) ==
    /\ rows' = SoftDeleteByFile(rows, agent_id, file_id)
    /\ UNCHANGED <<partitions, next_id, agent_use>>
    /\ UNCHANGED <<runVars, chatVars, chainVars, quotaVars, ingestVars,
                   chunkVars>>

\* AgentService.delete_agent: _get_agent_or_404 finds the agent only while
\* its use_yn is "Y"; the agent's row is flagged and committed
DeleteAgent(agent_id) ==
    /\ agent_use[agent_id] = "Y"
    /\ agent_use' = [agent_use EXCEPT ![agent_id] = "N"]
    /\ UNCHANGED <<rows, partitions, next_id>>
    /\ UNCHANGED <<runVars, chatVars, chainVars, quotaVars, ingestVars,
                   chunkVars>>

InitStore ==
    /\ RunOff
    /\ ChainOff
    /\ QuotaOff
    /\ StoreInit
    /\ IngestOff
    /\ ChunkOff
    /\ ChatOff

NextStore ==
    \/ \E a \in Agents : CreatePartition(a)
    \/ \E a \in Agents : DropPartition(a)
    \/ \E a \in Agents, f \in Files, b \in ChunkBatches : AddChunks(a, f, b)
    \/ \E a \in Agents : DeleteByAgent(a)
    \/ \E a \in Agents, f \in Files : DeleteByFile(a, f)
    \/ \E a \in Agents : DeleteAgent(a)

SpecStore == InitStore /\ [][NextStore]_vars

----------------------------------------------------------------------------
(* Properties of the vector store *)

\* the row that a returned record was read from
RowOf(rec) == CHOOSE r \in rows : r.id = rec.id

\* C15: whatever add_chunks has stored for the agents, every record that
\* similarity_search returns for an agent is a row of that agent, for every
\* query embedding, top_k and threshold.
C15_SearchScopedToAgent ==
    \A a \in Agents, q \in QueryEmbeddings, k \in TopKs, t \in Thresholds :
       LET res == SimilaritySearch(rows, a, q, k, t)
       IN  \A i \in 1..Len(res) :
              /\ \E r \in rows : r.id = res[i].id
              /\ RowOf(res[i]).agent_id = a

\* a search of A returns a row although an active row of B is nearer to the
\* query than every row of A
C15_Witness ==
    \E q \in QueryEmbeddings, k \in TopKs, t \in Thresholds :
       /\ SimilaritySearch(rows, "A", q, k, t) # <<>>
       /\ \E b \in rows :
             /\ b.agent_id = "B"
             /\ b.use_yn = "Y"
             /\ \A r \in rows :
                   r.agent_id = "A" =>
                     Similarity[b.embedding, q] > Similarity[r.embedding, q]

\* C16: a step of delete_by_agent(a) leaves get_chunk_count(a) = 0 and every
\* similarity_search of a empty, keeps every row, and changes nothing but
\* the use_yn flag and the update time of a's rows; a row disappears only
\* when the partition of its agent is dropped.
C16_SoftDeleteKeepsRows ==
    [][/\ \A a \in Agents :
             (rows' = SoftDeleteByAgent(rows, a) /\ partitions' = partitions)
               => /\ GetChunkCount(rows', a) = 0
                  /\ \A q \in QueryEmbeddings, k \in TopKs, t \in Thresholds :
                        SimilaritySearch(rows', a, q, k, t) = <<>>
                  /\ \A r \in rows :
                        \E n \in rows' :
                           /\ n.id = r.id
                           /\ [n EXCEPT !.use_yn = r.use_yn,
                                        !.updated_at = r.updated_at] = r
                           /\ r.agent_id # a => n = r
       /\ \A r \in rows :
             (\A n \in rows' : n.id # r.id)
               => r.agent_id \in partitions \ partitions']_vars

\* delete_by_agent has flagged rows of A, after delete_by_file had flagged
\* another of them: A has rows, none is active, its partition exists
C16_Witness ==
    /\ "A" \in partitions
    /\ \E r \in rows : r.agent_id = "A" /\ r.updated_at = "delete_by_agent"
    /\ \E r \in rows : r.agent_id = "A" /\ r.updated_at = "delete_by_file"
    /\ GetChunkCount(rows, "A") = 0
    /\ GetChunkCount(rows, "B") > 0

\* C17: a step that soft-deletes an agent drops the partition of that
\* agent.
C17_DeleteAgentDropsPartition ==
    [][\A a \in Agents :
          (agent_use[a] = "Y" /\ agent_use'[a] = "N") => a \notin partitions']_vars

----------------------------------------------------------------------------
(* The chunker: TextChunker of rag/chunking.py.  A text is a sequence of   *)
(* characters.                                                             *)

\* the characters of the texts: a letter, and the characters the separators
\* are made of
Alphabet == {"a", " ", "\n", "."}

\* self.separators: the default list
Separators == << <<"\n", "\n">>, <<"\n">>, <<".", " ">>, <<" ">> >>

\* the texts of at most n characters
RECURSIVE Texts(_)
Texts(n) ==
    IF n = 0 THEN {<<>>}
    ELSE LET shorter == Texts(n - 1)
         IN  shorter \cup {Append(s, c) : s \in shorter, c \in Alphabet}

\* str.strip()
RECURSIVE StripText(_)
StripText(s) ==
    IF s = <<>> THEN s
    ELSE IF s[1] \in {" ", "\n"} THEN StripText(Tail(s))
    ELSE IF s[Len(s)] \in {" ", "\n"}
      THEN StripText(SubSeq(s, 1, Len(s) - 1))
    ELSE s

\* str.split(sep): the pieces between the occurrences of sep, found from
\* the left
RECURSIVE SplitText(_, _)
SplitText(s, sep) ==
    LET hits == {i \in 1..(Len(s) - Len(sep) + 1) :
                    SubSeq(s, i, i + Len(sep) - 1) = sep}
    IN  IF hits = {} THEN <<s>>
        ELSE LET i == CHOOSE h \in hits : \A g \in hits : h <= g
             IN  <<SubSeq(s, 1, i - 1)>>
                   \o SplitText(SubSeq(s, i + Len(sep), Len(s)), sep)

\* "current_chunk[-self.chunk_overlap:] if self.chunk_overlap else ''"
OverlapText(current_chunk, overlap) ==
    IF overlap = 0 THEN <<>>
    ELSE IF overlap >= Len(current_chunk) THEN current_chunk
    ELSE SubSeq(current_chunk, Len(current_chunk) - overlap + 1,
                Len(current_chunk))

\* TextChunker._split_by_length from position start (counted from 0)
RECURSIVE SplitByLength(_, _, _, _)
SplitByLength(s, start, size, overlap) ==
    IF start >= Len(s) THEN <<>>
    ELSE LET end == start + size
         IN  <<SubSeq(s, start + 1, Min(end, Len(s)))>>
               \o SplitByLength(s, IF overlap # 0 THEN end - overlap ELSE end,
                                size, overlap)

\* TextChunker._recursive_split, and its for loop from the i-th part on with
\* the chunks closed so far and the running buffer current_chunk
RECURSIVE RecursiveSplit(_, _, _, _)
RECURSIVE SplitLoop(_, _, _, _, _, _, _, _)
SplitLoop(parts, i, sep, remaining_seps, chunks, current_chunk, size, overlap) ==
    IF i > Len(parts)
      THEN IF current_chunk # <<>> THEN Append(chunks, current_chunk)
           ELSE chunks
    ELSE LET part == parts[i]
         IN  IF Len(current_chunk) + Len(part) + Len(sep) > size
               THEN IF current_chunk # <<>>
                      THEN SplitLoop(parts, i + 1, sep, remaining_seps,
                                     Append(chunks, current_chunk),
                                     OverlapText(current_chunk, overlap) \o part,
                                     size, overlap)
                    ELSE SplitLoop(parts, i + 1, sep, remaining_seps,
                                   chunks \o
                                     IF remaining_seps # <<>>
                                       THEN RecursiveSplit(part, remaining_seps,
                                                           size, overlap)
                                     ELSE SplitByLength(part, 0, size, overlap),
                                   current_chunk, size, overlap)
             ELSE SplitLoop(parts, i + 1, sep, remaining_seps, chunks,
                            IF current_chunk # <<>>
                              THEN current_chunk \o sep \o part
                            ELSE part,
                            size, overlap)

RecursiveSplit(s, separators, size, overlap) ==
    IF separators = <<>> THEN SplitByLength(s, 0, size, overlap)
    ELSE SplitLoop(SplitText(s, Head(separators)), 1, Head(separators),
                   Tail(separators), <<>>, <<>>, size, overlap)

\* the loop of chunk over enumerate(chunks), from the i-th chunk on (counted
\* from 0)
RECURSIVE Enumerated(_, _)
Enumerated(chunks, i) ==
    IF i >= Len(chunks) THEN <<>>
    ELSE (IF StripText(chunks[i + 1]) # <<>>
            THEN <<[content |-> StripText(chunks[i + 1]), chunk_index |-> i]>>
          ELSE <<>>)
           \o Enumerated(chunks, i + 1)

\* TextChunker.chunk
Chunk(s, size, overlap) ==
    IF s = <<>> \/ StripText(s) = <<>> THEN <<>>
    ELSE Enumerated(RecursiveSplit(s, Separators, size, overlap), 0)

\* a chunker was constructed with chunk_size > chunk_overlap >= 0 and chunk
\* is called on a text
InitChunk ==
    /\ RunOff
    /\ ChainOff
    /\ QuotaOff
    /\ StoreInit
    /\ IngestOff
    /\ chunk_text \in Texts(MaxTextLen)
    /\ chunk_size \in 1..MaxChunkSize
    /\ chunk_overlap \in 0..(chunk_size - 1)
    /\ chunk_pc = "call"
    /\ chunk_result = <<>>
    /\ split_start = 0
    /\ ChatOff

\* chunk runs and returns its list
ChunkCall ==
    /\ chunk_pc = "call"
    /\ chunk_result' = Chunk(chunk_text, chunk_size, chunk_overlap)
    /\ chunk_pc' = "returned"
    /\ UNCHANGED <<chunk_text, chunk_size, chunk_overlap, split_start>>
    /\ UNCHANGED <<runVars, chatVars, chainVars, quotaVars, storeVars,
                   ingestVars>>

NextChunk == ChunkCall

SpecChunk == InitChunk /\ [][NextChunk]_vars

----------------------------------------------------------------------------
(* Properties of the chunker *)

\* C19: no chunk that chunk returns is longer than chunk_size +
\* chunk_overlap characters.
C19_ChunkLengthBound ==
    chunk_pc = "returned" =>
        \A i \in 1..Len(chunk_result) :
           Len(chunk_result[i].content) <= chunk_size + chunk_overlap

\* C20: the chunks that chunk returns carry the indices 0, 1, ..., n - 1 in
\* order.
C20_ContiguousIndices ==
    chunk_pc = "returned" =>
        \A i \in 1..Len(chunk_result) : chunk_result[i].chunk_index = i - 1

----------------------------------------------------------------------------
(* EmbeddingService.process_agent_files (rag/embedding.py) with
   DocumentParser.parse (rag/parsing.py), for agent "A" *)

\* what the loop can meet for one file id of the agent: no File row; a file
\* whose parser raises; a file of an unsupported type or without text, for
\* which parse returns ""; files with text
FileStates ==
    {[exists |-> FALSE, raises |-> FALSE, text |-> <<>>],
     [exists |-> TRUE, raises |-> TRUE, text |-> <<>>],
     [exists |-> TRUE, raises |-> FALSE, text |-> <<>>],
     [exists |-> TRUE, raises |-> FALSE, text |-> <<" ">>],
     [exists |-> TRUE, raises |-> FALSE, text |-> <<"a">>],
     [exists |-> TRUE, raises |-> FALSE, text |-> <<"a", " ", "a", "a">>]}

\* DocumentParser.parse: the text, or the exception of the format's parser
\* raised again
Parse(file) == [raised |-> file.raises, text |-> file.text]

\* the entries of seq at the positions where keep holds, in order
RECURSIVE Kept(_, _, _)
Kept(seq, keep, i) ==
    IF i > Len(seq) THEN <<>>
    ELSE (IF keep[i] THEN <<seq[i]>> ELSE <<>>) \o Kept(seq, keep, i + 1)

\* process_agent_files was called for an agent with these files
InitIngest ==
    /\ RunOff
    /\ ChainOff
    /\ QuotaOff
    /\ StoreInit
    /\ ChunkOff
    /\ ChatOff
    /\ ing_files \in UNION {[1..n -> FileStates] : n \in 0..MaxFiles}
    /\ ing_pc = "call"
    /\ ing_i = 0
    /\ files_processed = 0
    /\ chunks_created = 0

\* the head of process_agent_files: the file ids are fetched; without files
\* it returns at once, otherwise the partition is created and the loop begins
IngestBegin ==
    /\ ing_pc = "call"
    /\ IF ing_files = <<>>
         THEN /\ ing_pc' = "returned"
              /\ UNCHANGED <<ing_i, partitions>>
         ELSE /\ ing_pc' = "loop"
              /\ ing_i' = 1
              /\ partitions' = partitions \cup {"A"}
    /\ UNCHANGED <<ing_files, files_processed, chunks_created>>
    /\ UNCHANGED <<rows, next_id, agent_use>>
    /\ UNCHANGED <<runVars, chatVars, chainVars, quotaVars, chunkVars>>

\* one pass of "for file_id in file_ids"; the chunker has chunk_size 2 and
\* chunk_overlap 0, embed_query gives an embedding or None for each chunk, and
\* the id of the file is its position in the list
IngestFile ==
    /\ ing_pc = "loop"
    /\ ing_i <= Len(ing_files)
    /\ LET file == ing_files[ing_i]
           parsed == Parse(file)
           chunks == Chunk(parsed.text, 2, 0)
       IN  IF ~file.exists \/ (~parsed.raised /\ parsed.text = <<>>)
             THEN /\ ing_i' = ing_i + 1
                  /\ UNCHANGED <<ing_pc, files_processed, chunks_created,
                                 rows, next_id>>
           ELSE IF parsed.raised
             THEN /\ ing_pc' = "raised"
                  /\ UNCHANGED <<ing_i, files_processed, chunks_created,
                                 rows, next_id>>
           ELSE \E embedded \in [1..Len(chunks) -> BOOLEAN] :
                  LET valid_chunks ==
                          Kept([c \in 1..Len(chunks) |-> chunks[c].content],
                               embedded, 1)
                      valid_embeddings ==
                          [c \in 1..Len(valid_chunks) |-> <<3, 4>>]
                      new == NewRows("A", ing_i, valid_chunks,
                                     valid_embeddings, next_id)
                  IN  /\ rows' = rows \cup new
                      /\ next_id' = next_id + Cardinality(new)
                      /\ chunks_created' = chunks_created + Len(valid_chunks)
                      /\ files_processed' = files_processed + 1
                      /\ ing_i' = ing_i + 1
                      /\ UNCHANGED ing_pc
    /\ UNCHANGED <<ing_files, partitions, agent_use>>
    /\ UNCHANGED <<runVars, chatVars, chainVars, quotaVars, chunkVars>>

\* the end of process_agent_files: the index is created when chunks were
\* stored, a failure of that is logged, and the counts are returned
IngestReturn ==
    /\ ing_pc = "loop"
    /\ ing_i > Len(ing_files)
    /\ ing_pc' = "returned"
    /\ UNCHANGED <<ing_files, ing_i, files_processed, chunks_created>>
    /\ UNCHANGED <<storeVars, runVars, chatVars, chainVars, quotaVars,
                   chunkVars>>

\* process_agent_files is called again for the agent, whose files have not
\* changed (force is not read by the function); further calls are made while
\* fewer than MaxRows rows were inserted
IngestAgain ==
    /\ ing_pc = "returned"
    /\ next_id <= MaxRows
    /\ ing_pc' = "call"
    /\ ing_i' = 0
    /\ files_processed' = 0
    /\ chunks_created' = 0
    /\ UNCHANGED ing_files
    /\ UNCHANGED <<storeVars, runVars, chatVars, chainVars, quotaVars,
                   chunkVars>>

NextIngest ==
    \/ IngestBegin
    \/ IngestFile
    \/ IngestReturn
    \/ IngestAgain

SpecIngest == InitIngest /\ [][NextIngest]_vars

----------------------------------------------------------------------------
(* Properties of process_agent_files *)

\* C18: when the parse of a file fails, process_agent_files skips the file
\* without counting it and goes on with the next file; what was stored and
\* counted before stays.
C18_ParseFailureSkipped ==
    [][(/\ ing_pc = "loop"
        /\ ing_i <= Len(ing_files)
        /\ ing_files[ing_i].exists
        /\ Parse(ing_files[ing_i]).raised)
          => /\ ing_pc' = "loop"
             /\ ing_i' = ing_i + 1
             /\ files_processed' = files_processed
             /\ chunks_created' = chunks_created
             /\ rows' = rows]_vars


\* the characters of s that are not whitespace, in order
NonWhitespace(s) == SelectSeq(s, LAMBDA ch : ch \notin {" ", "\n"})

\* whether the entries of a occur in b in the same order
RECURSIVE IsSubsequence(_, _)
IsSubsequence(a, b) ==
    IF a = <<>> THEN TRUE
    ELSE IF b = <<>> THEN FALSE
    ELSE IF Head(a) = Head(b) THEN IsSubsequence(Tail(a), Tail(b))
    ELSE IsSubsequence(a, Tail(b))

\* the contents of the chunks from the i-th on, one after the other
RECURSIVE Contents(_, _)
Contents(result, i) ==
    IF i > Len(result) THEN <<>>
    ELSE result[i].content \o Contents(result, i + 1)

\* C21: every character of the text that is not whitespace, the periods at
\* split points included, appears in order in the contents of the chunks
\* that chunk returns, taken one after the other.
C21_ChunksCoverText ==
    chunk_pc = "returned" =>
        IsSubsequence(NonWhitespace(chunk_text),
                      NonWhitespace(Contents(chunk_result, 1)))

----------------------------------------------------------------------------
(* Properties of the classifier, the input guard and the usage total, on
   the runs of run_stream *)

\* the task_purpose values of the agent templates, "" for no preferences
TaskPurposes == {"", "qa", "summary", "research", "monitoring"}

HasBothKeywords(q) ==
    /\ KeywordScore(RAG_KEYWORDS, q) > 0
    /\ KeywordScore(WEB_KEYWORDS, q) > 0

\* C22: for a query with a document keyword and a web keyword, classify
\* returns hybrid with confidence 0.7, whatever the preferences and the
\* previous tool results.
C22_HybridWhenBothKeywords ==
    (pc = "tools" /\ HasBothKeywords(query)) =>
        /\ intent = "hybrid"
        /\ \A pref \in TaskPurposes :
              Classify(query, tool_results, pref) =
                  [intent_type |-> "hybrid", confidence |-> 70]

\* such a query was classified again on a re-query, after only the rag tool
\* had run
C22_Witness ==
    /\ pc = "tools"
    /\ HasBothKeywords(query)
    /\ iteration = 2
    /\ tool_results # <<>>
    /\ \A i \in 1..Len(tool_results) : tool_results[i].tool_type = "rag"


\* the reasons InputGuardMiddleware gives when it aborts
GuardReasons == {"empty query", "query too long"}

\* the runs of whitespace of raw that have a word before and after them
InnerRuns(raw) ==
    {i \in 2..Len(raw) :
        /\ raw[i] = WS
        /\ raw[i - 1] # WS
        /\ \E j \in (i + 1)..Len(raw) : raw[j] # WS}

\* q is raw trimmed, with every run of whitespace inside it made one space
IsNormalised(raw, q) ==
    /\ NonWhitespace(q) = NonWhitespace(raw)
    /\ q # <<>> => (q[1] # WS /\ q[Len(q)] # WS)
    /\ \A i \in 1..(Len(q) - 1) : ~(q[i] = WS /\ q[i + 1] = WS)
    /\ Len(q) = Len(NonWhitespace(raw)) + Cardinality(InnerRuns(raw))

\* what the before_run hooks leave in the context, given that the input
\* guard rejects the queries for which rejected holds
GuardOutcome(rejected) ==
    /\ rejected <=> ctx'.abort_reason \in GuardReasons
    /\ ctx'.abort_reason \in GuardReasons => ctx'.aborted
    /\ ~rejected => IsNormalised(raw_query, ctx'.query)

UsageReceived ==
    /\ pc = "stream"
    /\ llm_pos < Len(llm_out)
    /\ llm_out[llm_pos + 1].usage

C25_AbortEndsWithError ==
    [][(ctx.aborted /\ pc # "done") =>
          /\ invoked' = invoked
          /\ pc' = "stream" => pc = "stream"
          /\ event_count'["answer_end"] = 0
          /\ pc' = "done" => event_count'["error"] = 1]_vars

----------------------------------------------------------------------------
(* Quota enforcement inside the chain *)

\* the place of TokenLimitMiddleware in the default chain
TokenLimitAt == CHOOSE i \in 1..Len(Chain) : Chain[i] = "TokenLimit"

\* before_run of TokenLimitMiddleware raised in the last call of the chain
TokenLimitRaisedAt(k) ==
    /\ chain_hook = "before_run"
    /\ chain_mws = Chain
    /\ k \in 1..Len(chain_calls)
    /\ chain_calls[k] = Call(TokenLimitAt, "before_run", "raise")

----------------------------------------------------------------------------
(* ChatService.send_message_stream (services/chat_service.py) from the
   construction of the ReActAgent on: the service is the consumer of
   run_stream and an async generator itself, which its caller may close.
   No exception leaves run_stream, so the except branch of the service is
   not taken. *)

\* event_data.get(key, ""): the data of an answer_token event is
\* {"token": token}
EventGet(e, key) ==
    IF e.type = "answer_token" /\ key = "token" THEN e.token ELSE ""

\* the service has built its agent and is about to iterate over run_stream
InitChat ==
    /\ StartState
    /\ ChainOff
    /\ QuotaOff
    /\ StoreInit
    /\ IngestOff
    /\ ChunkOff
    /\ chat_pc = "waiting"
    /\ chat_seen = 0
    /\ chat_full_response = <<>>
    /\ chat_forwarded = <<>>
    /\ chat_message = <<>>

\* the service awaits the next event: the generator runs
ChatDrive ==
    /\ chat_pc = "waiting"
    /\ chat_seen = yield_count
    /\ \/ BeforeRun
       \/ AbortAfterRun
       \/ Classifying
       \/ GetEnabledTools
       \/ NextTool
       \/ BeforeTool
       \/ ExecuteTool
       \/ BeforeLlm
       \/ StreamItem
       \/ Evaluating
       \/ Decide
       \/ HandleException
       \/ AfterRun

\* the body of the async for: the service takes the event the generator
\* yielded, 'full_response += event_data.get("content", "")' for an
\* answer_token event, where adding "" changes nothing, and yields the event
\* to its caller
ChatReceive ==
    /\ chat_pc = "waiting"
    /\ chat_seen < yield_count
    /\ chat_seen' = yield_count
    /\ IF last_event.type = "answer_token"
         THEN /\ chat_full_response' =
                    IF EventGet(last_event, "content") = ""
                      THEN chat_full_response
                      ELSE Append(chat_full_response,
                                  EventGet(last_event, "content"))
              /\ chat_forwarded' = Append(chat_forwarded, last_event.token)
         ELSE UNCHANGED <<chat_full_response, chat_forwarded>>
    /\ chat_pc' = "yielding"
    /\ UNCHANGED chat_message
    /\ UNCHANGED <<runVars, chainVars, quotaVars, storeVars, ingestVars,
                   chunkVars>>

\* the caller asks for the next event: the loop goes round
ChatResume ==
    /\ chat_pc = "yielding"
    /\ chat_pc' = "waiting"
    /\ UNCHANGED <<chat_seen, chat_full_response, chat_forwarded,
                   chat_message>>
    /\ UNCHANGED <<runVars, chainVars, quotaVars, storeVars, ingestVars,
                   chunkVars>>

\* the caller stops consuming: GeneratorExit is raised at the yield of the
\* service and then, when the abandoned run_stream generator is closed, at
\* the yield where that one is suspended; "except Exception" does not catch
\* it and no finally clause runs
ChatClose ==
    /\ chat_pc = "yielding"
    /\ chat_pc' = "closed"
    /\ pc' = "closed"
    /\ UNCHANGED <<chat_seen, chat_full_response, chat_forwarded,
                   chat_message>>
    /\ UNCHANGED <<raw_query, agent_tools, max_iterations, ctx, query,
                   iteration, intent, tools, tool_idx, tool_results,
                   exec_context, invoked, llm_out, llm_pos, full_response,
                   total_usage, score, passed, exc, tracked, after_run_calls>>
    /\ UNCHANGED evs
    /\ UNCHANGED <<chainVars, quotaVars, storeVars, ingestVars, chunkVars>>

\* the generator is exhausted: the assistant message is saved and "done" is
\* yielded
ChatSave ==
    /\ chat_pc = "waiting"
    /\ pc = "done"
    /\ chat_message' = <<IF chat_full_response # <<>>
                           THEN chat_full_response
                           ELSE <<"No response generated">> >>
    /\ chat_pc' = "saved"
    /\ UNCHANGED <<chat_seen, chat_full_response, chat_forwarded>>
    /\ UNCHANGED <<runVars, chainVars, quotaVars, storeVars, ingestVars,
                   chunkVars>>

NextChat ==
    \/ ChatDrive
    \/ ChatReceive
    \/ ChatResume
    \/ ChatClose
    \/ ChatSave

SpecChat == InitChat /\ [][NextChat]_vars

----------------------------------------------------------------------------
(* Properties of the consumer side *)

\* C26: when the consumer closes the stream of run_stream at a yield before
\* the terminal event, after_run of every middleware has still been called
\* exactly once for the run.
C26_AfterRunWhenClosed ==
    (pc = "closed" /\ Terminals = 0) =>
        \A i \in 1..Len(Chain) : after_run_calls[i] = 1

\* C28: the content of the assistant message that send_message_stream saves
\* is the tokens of the answer_token events of the run, in order, and the
\* placeholder only when there was none.
C28_MessageIsTheAnswer ==
    chat_pc = "saved" =>
        chat_message = <<IF chat_forwarded # <<>>
                           THEN chat_forwarded
                           ELSE <<"No response generated">> >>

----------------------------------------------------------------------------
(* Repeated ingestion *)

\* C29: however often process_agent_files has run for an agent with
\* unchanged files, the active chunk records of a file carry each
\* chunk_index once, as after the first run.
C29_RerunKeepsRows ==
    \A r1 \in rows, r2 \in rows :
        (/\ r1.use_yn = "Y"
         /\ r2.use_yn = "Y"
         /\ r1.agent_id = r2.agent_id
         /\ r1.file_id = r2.file_id
         /\ r1.chunk_index = r2.chunk_index) => r1 = r2

----------------------------------------------------------------------------
(* The while loop of TextChunker._split_by_length, step by step, for any
   chunk_size and chunk_overlap that the "chunking" entry of an agent's
   config can hold.  chunk hands a text without separator characters that
   does not fit one chunk to _split_by_length as it is. *)

InitSplit ==
    /\ RunOff
    /\ ChainOff
    /\ QuotaOff
    /\ StoreInit
    /\ IngestOff
    /\ ChatOff
    /\ chunk_size \in 1..MaxChunkSize
    /\ chunk_overlap \in 0..MaxChunkSize
    /\ chunk_text \in {s \in UNION {[1..n -> {"a", "."}] : n \in 1..MaxTextLen} :
                          Len(s) >= chunk_size}
    /\ chunk_pc = "split"
    /\ chunk_result = <<>>
    /\ split_start = 0

\* one pass of "while start < len(text)": text[start:end] is appended and
\* start is moved; a negative index of a slice counts from the end.  The
\* loop is followed for one pass more than the text has characters.
SplitStep ==
    /\ chunk_pc = "split"
    /\ split_start < Len(chunk_text)
    /\ Len(chunk_result) <= Len(chunk_text)
    /\ LET end == split_start + chunk_size
           Index(k) == IF k >= 0 THEN Min(k, Len(chunk_text))
                       ELSE IF Len(chunk_text) + k > 0 THEN Len(chunk_text) + k
                       ELSE 0
       IN  /\ chunk_result' =
                 Append(chunk_result,
                        IF Index(split_start) < Index(end)
                          THEN SubSeq(chunk_text, Index(split_start) + 1,
                                      Index(end))
                          ELSE <<>>)
           /\ split_start' = IF chunk_overlap # 0 THEN end - chunk_overlap
                             ELSE end
    /\ UNCHANGED <<chunk_text, chunk_size, chunk_overlap, chunk_pc>>
    /\ UNCHANGED <<runVars, chatVars, chainVars, quotaVars, storeVars,
                   ingestVars>>

\* the loop condition fails: "return chunks"
SplitReturn ==
    /\ chunk_pc = "split"
    /\ split_start >= Len(chunk_text)
    /\ chunk_pc' = "returned"
    /\ UNCHANGED <<chunk_text, chunk_size, chunk_overlap, chunk_result,
                   split_start>>
    /\ UNCHANGED <<runVars, chatVars, chainVars, quotaVars, storeVars,
                   ingestVars>>

NextSplit ==
    \/ SplitStep
    \/ SplitReturn

SpecSplit == InitSplit /\ [][NextSplit]_vars

----------------------------------------------------------------------------
(* Termination of the chunker *)

\* C30: every pass of the hard character split moves start forward, for
\* every chunk_size and chunk_overlap, so that the loop ends after at most
\* as many passes as the text has characters and chunk returns.
C30_SplitAdvances ==
    [][(chunk_pc = "split" /\ chunk_pc' = "split") =>
          split_start' > split_start]_vars

====
